---- MODULE Spec2Model ----
(***************************************************************************)
(* SharkScope frontend: the event-ingestion / batching pipeline of App.jsx *)
(* (ws.onmessage, flushBatchedUpdates, start/stop/clear), the Connection   *)
(* Store, the Packet Event Window, the two ArcGroup derivations and the    *)
(* selection state.                                                        *)
(*                                                                         *)
(* Conventions                                                             *)
(*  - JavaScript strings that the code builds and compares (coordinate     *)
(*    keys, group keys, process names) are sequences of UTF-16 code units. *)
(*    null / undefined / "" (all falsy) are the empty sequence.            *)
(*  - An IP address is a natural number; the numeric order of the numbers  *)
(*    stands for the code-unit order of the address texts, and an address  *)
(*    text holds no "-", so [a, b].sort().join('-') is the ordered pair.   *)
(*  - A coordinate is an integer number of hundredths of a degree.         *)
(*  - Date.now() is the variable now, advanced by Tick.                    *)
(***************************************************************************)
EXTENDS Integers, Sequences, FiniteSets, TLC

\* ------------------------------------------------------------------ bounds
\* Capacity of the Connection Store (1000 in the source, scaled down so that
\* overflow is reachable).
MAX_CONNECTIONS == 2
\* Capacity of the Packet Event Window (300 in the source, scaled down).
MAX_PACKET_EVENTS == 2
\* new_flow packets with geo accepted over a run
MaxFlows == 3
\* packet events and clock advances over a run
MaxInputs == 4
\* superseded sockets whose close event is still to come
MaxStale == 1
\* pixels a pointer travels between a press and its release
MaxMoved == 7
\* Date.now() at the end of a run in which the timers stay fair
MaxNow == 4000

\* -------------------------------------------------------- program constants
PACKET_EVENT_TTL_MS == 2000
\* the literal 5 that dragDist is compared with in both projections
ClickThreshold == 5
\* zoom range of the WorldMap, 1 to 8, and the zoom of its goHome, 3
PlanarZoomMin == 1000
PlanarZoomMax == 8000
PlanarHomeZoom == 3000
\* zoom range of the Globe, 1.5 to 6, its initial zoom 2.8 and the zoom of
\* its goHome with a home location, 2.2
GlobeZoomMin == 1500
GlobeZoomMax == 6000
GlobeStartZoom == 2800
GlobeHomeZoom == 2200
\* milliseconds between two hover checks
HoverThrottle == 50
\* lifetime of a packet marker in a frame, in ms
PACKET_DURATION == 800

\* ------------------------------------------------------------------ units
\* a zoom factor of 1
ZoomUnit == 1000
\* the parts of a pixel a pan is counted in
PanUnit == 2000

\* ------------------------------------------------------------ value domains
IPs == {1, 2, 3}
Lengths == {100, 250}
TickSteps == {1, PACKET_EVENT_TTL_MS}
\* Math.abs(deltaX) + Math.abs(deltaY) of one mousemove event
MoveSteps == {1, 4}
\* sizes of the render surface, scaled down to the pointer travel of the
\* model: the full layout, a narrowed one, a collapsed one
SurfaceSizes == {[w |-> 8, h |-> 6], [w |-> 4, h |-> 3], [w |-> 0, h |-> 0]}
StartSurface == [w |-> 8, h |-> 6]

\* a lat / lon that is null or undefined
NoCoord == 99999

\* an absent geo (undefined / null)
NoGeo == [absent |-> TRUE]

Geo(lat, lon, pending, unknown) ==
  [lat |-> lat, lon |-> lon, pending |-> pending, unknown |-> unknown]

GeoA == Geo(4071, -7401, FALSE, FALSE)
GeoA2 == Geo(4073, -7398, FALSE, FALSE)
GeoS == Geo(-3387, 15121, FALSE, FALSE)
GeoUnknown == Geo(0, 0, FALSE, TRUE)
GeoPending == Geo(NoCoord, NoCoord, TRUE, FALSE)
GeoLatOnly == Geo(4071, NoCoord, FALSE, FALSE)
GeoHome == Geo(4761, -12233, FALSE, FALSE)

\* process names: "" / undefined (none) and "a"
NoProcess == <<>>
ProcA == <<97>>
ProcB == <<98>>
\* the literal 'Unknown'
UnknownName == <<85, 110, 107, 110, 111, 119, 110>>

\* no selection (null)
Null == <<>>

\* ----------------------------------------------------------- string helpers
Abs(x) == IF x < 0 THEN 0 - x ELSE x

RECURSIVE Digits(_)
Digits(n) == IF n < 10 THEN <<48 + n>> ELSE Digits(n \div 10) \o <<48 + (n % 10)>>

\* Number.prototype.toFixed(1) of c/100: sign when c < 0, then the nearest
\* tenth (the larger on a tie), always with one fraction digit.
ToFixed1(c) ==
  LET n == (Abs(c) + 5) \div 10
  IN (IF c < 0 THEN <<45>> ELSE <<>>) \o Digits(n \div 10) \o <<46, 48 + (n % 10)>>

\* the default Array.prototype.sort order: by code units, a prefix first
RECURSIVE StrLess(_, _)
StrLess(a, b) ==
  IF b = <<>> THEN FALSE
  ELSE IF a = <<>> THEN TRUE
  ELSE IF Head(a) # Head(b) THEN Head(a) < Head(b)
  ELSE StrLess(Tail(a), Tail(b))

\* `${geo.lat.toFixed(1)},${geo.lon.toFixed(1)}`
CoordKey(geo) == ToFixed1(geo.lat) \o <<44>> \o ToFixed1(geo.lon)

\* a key that keeps the direction of the connection
LocationKeyDirected(srcKey, dstKey) == srcKey \o <<45>> \o dstKey

\* [srcKey, dstKey].sort().join('-')
LocationKey(srcKey, dstKey) ==
  IF StrLess(dstKey, srcKey) THEN dstKey \o <<45>> \o srcKey
  ELSE srcKey \o <<45>> \o dstKey

\* `${processName}-${dstKey}`
AppKey(processName, dstKey) == processName \o <<45>> \o dstKey

\* a key that keeps the direction of the packet
PairKeyDirected(a, b) == <<a, b>>

\* [src_ip, dst_ip].sort().join('-')
PairKey(a, b) == IF a <= b THEN <<a, b>> ELSE <<b, a>>

ConnKey(conn) == PairKey(conn.src_ip, conn.dst_ip)

\* a || b on geo values
GeoOr(g, h) == IF g # NoGeo THEN g ELSE h

\* -------------------------------------------------------------- aggregation
\* index of the group with this key, 0 when groups.has(key) is false
GroupIndex(groups, key) ==
  IF \E i \in 1..Len(groups) : groups[i].key = key
  THEN CHOOSE i \in 1..Len(groups) : groups[i].key = key
  ELSE 0

\* groups.get(key) followed by the push and the two sums
AddToGroup(groups, fresh, conn) ==
  LET at == GroupIndex(groups, fresh.key)
      gs == IF at = 0 THEN Append(groups, fresh) ELSE groups
      i == IF at = 0 THEN Len(gs) ELSE at
  IN [gs EXCEPT ![i] = [@ EXCEPT !.connections = Append(@, conn),
                                 !.totalBytes = @ + conn.bytes,
                                 !.totalPackets = @ + conn.packets]]

\* one iteration of the forEach callback of arcGroups
ArcVisit(acc, conn, home) ==
  LET srcGeo == GeoOr(conn.src_geo, home)
      dstGeo == GeoOr(conn.dst_geo, home)
  IN IF srcGeo = NoGeo \/ dstGeo = NoGeo THEN acc
     ELSE IF srcGeo.pending \/ dstGeo.pending THEN acc
     ELSE IF srcGeo.lat = NoCoord \/ dstGeo.lat = NoCoord THEN acc
     ELSE IF srcGeo.lon = NoCoord \/ dstGeo.lon = NoCoord
          THEN [acc EXCEPT !.threw = TRUE]
     ELSE LET key == LocationKey(CoordKey(srcGeo), CoordKey(dstGeo))
              fresh == [key |-> key, srcGeo |-> srcGeo, dstGeo |-> dstGeo,
                        process |-> NoProcess, connections |-> <<>>,
                        totalBytes |-> 0, totalPackets |-> 0]
          IN [acc EXCEPT !.groups = AddToGroup(@, fresh, conn)]

\* one iteration of the forEach callback of appGroups
AppVisit(acc, conn, home) ==
  LET srcGeo == GeoOr(conn.src_geo, home)
      dstGeo == GeoOr(conn.dst_geo, home)
  IN IF srcGeo = NoGeo \/ dstGeo = NoGeo THEN acc
     ELSE IF srcGeo.pending \/ dstGeo.pending THEN acc
     ELSE IF srcGeo.lat = NoCoord \/ dstGeo.lat = NoCoord THEN acc
     ELSE IF dstGeo.lon = NoCoord
          THEN [acc EXCEPT !.threw = TRUE]
     ELSE LET processName == IF conn.process # NoProcess THEN conn.process
                             ELSE UnknownName
              key == AppKey(processName, CoordKey(dstGeo))
              fresh == [key |-> key, srcGeo |-> srcGeo, dstGeo |-> dstGeo,
                        process |-> processName, connections |-> <<>>,
                        totalBytes |-> 0, totalPackets |-> 0]
          IN [acc EXCEPT !.groups = AddToGroup(@, fresh, conn)]

NoGroups == [threw |-> FALSE, groups |-> <<>>]

RECURSIVE ArcFold(_, _, _, _)
ArcFold(conns, home, i, acc) ==
  IF i > Len(conns) \/ acc.threw THEN acc
  ELSE ArcFold(conns, home, i + 1, ArcVisit(acc, conns[i], home))

RECURSIVE AppFold(_, _, _, _)
AppFold(conns, home, i, acc) ==
  IF i > Len(conns) \/ acc.threw THEN acc
  ELSE AppFold(conns, home, i + 1, AppVisit(acc, conns[i], home))

\* the arcGroups memo: threw is TRUE when the callback raised a TypeError
\* (the groups built so far are then lost with the render)
ArcGroupsOf(conns, home) ==
  LET r == ArcFold(conns, home, 1, NoGroups)
  IN IF r.threw THEN [threw |-> TRUE, groups |-> <<>>] ELSE r

\* the appGroups memo
AppGroupsOf(conns, home) ==
  LET r == AppFold(conns, home, 1, NoGroups)
  IN IF r.threw THEN [threw |-> TRUE, groups |-> <<>>] ELSE r

\* -------------------------------------------------------------------- state
VARIABLES
  connections,               \* useState: the Connection Store
  packetEvents,              \* useState: the Packet Event Window
  stats,                     \* useState: running counters
  pendingPacketEvents,       \* pendingPacketEventsRef.current
  pendingNewConnections,     \* pendingNewConnectionsRef.current
  pendingConnectionUpdates,  \* pendingConnectionUpdatesRef.current (a Map)
  pendingStats,              \* pendingStatsRef.current
  selectedConnectionId,      \* useState
  selectedArcGroupKey,       \* useState
  homeLocation,              \* useState
  groupMode,                 \* useState
  arcGroups,                 \* useMemo over (connections, homeLocation)
  appGroups,                 \* useMemo over (connections, homeLocation)
  capturing,                 \* useState
  wsRef,                     \* wsRef.current: "null", or the readyState of its socket
  staleSockets,              \* sockets closed by close() whose close event is to come
  lookups,                   \* /api/lookup requests in flight
  now,                       \* Date.now()
  nFlows, nInputs,           \* run counters that bound the model
  credit,                    \* history: per record, what its counters must be
  window,                    \* history: per pair, the packet events received since
                             \* the last flush (early: updates before a new flow,
                             \* bare: updates that carry no geo)
  hist,                      \* history: what the last flush / selection acted on
  viewMode,                  \* useState: the projection shown, "3d" (Globe) or "2d" (WorldMap)
  controls,                  \* isDragging / dragDist of the mounted projection
  gesture,                   \* history: the pointer gesture under way
  surface,                   \* width and height of the render surface (CSS pixels)
  planar,                    \* WorldMap: useState zoom and pan
  camera,                    \* Globe: controls.zoom and controls.targetZoom
  hover                      \* hoveredArcGroup of the mounted projection and the
                             \* time of its last hover check

vars == <<connections, packetEvents, stats, pendingPacketEvents,
          pendingNewConnections, pendingConnectionUpdates, pendingStats,
          selectedConnectionId, selectedArcGroupKey, homeLocation, groupMode,
          arcGroups, appGroups, capturing, wsRef, staleSockets, lookups, now,
          nFlows, nInputs, credit, window, hist, viewMode, controls, gesture,
          surface, planar, camera, hover>>

storeVars == <<connections, packetEvents, stats>>
pendingVars == <<pendingPacketEvents, pendingNewConnections,
                 pendingConnectionUpdates, pendingStats>>
selectionVars == <<selectedConnectionId, selectedArcGroupKey>>
socketVars == <<capturing, wsRef, staleSockets>>
counterVars == <<nFlows, nInputs>>
pointerVars == <<viewMode, controls, gesture>>
viewVars == <<surface, planar, camera, hover>>

\* controls of a projection that was just mounted
IdleControls == [isDragging |-> FALSE, dragDist |-> 0]
\* no button is down
NoGesture == [pressed |-> FALSE, moved |-> 0]

NoPan == [x |-> 0, y |-> 0]

\* useState(1), useState({ x: 0, y: 0 })
StartPlanar == [zoom |-> ZoomUnit, pan |-> NoPan]

\* controls.zoom and controls.targetZoom of a Globe that was just mounted
StartCamera == [zoom |-> GlobeStartZoom, targetZoom |-> GlobeStartZoom]

\* the last hover check of a projection that was just mounted lies further
\* back than the throttle (let lastHoverUpdate = 0 against Date.now())
NeverChecked == 0 - (HoverThrottle + 1)
NoHover == [group |-> Null, last |-> NeverChecked]

ZeroStats == [packets |-> 0, flows |-> 0, bytes |-> 0]
NoUpdates == <<>>
PairKeys == {PairKey(a, b) : a \in IPs, b \in IPs}
ZeroWindow == [k \in PairKeys |-> [newFlows |-> 0, newBytes |-> 0,
                                   updPackets |-> 0, updBytes |-> 0,
                                   early |-> 0, barePackets |-> 0,
                                   bareBytes |-> 0]]
ZeroCredit == [bytes |-> 0, packets |-> 0, cycles |-> 0]
\* the history keeps what the last flush or selection acted on
NoHist == [op |-> "none"]
Uids == 1..MaxFlows

\* the component is mounted: no render has thrown
Alive == ~arcGroups.threw /\ ~appGroups.threw

\* the re-render that follows every state change recomputes both memos
Render ==
  /\ arcGroups' = ArcGroupsOf(connections', homeLocation')
  /\ appGroups' = AppGroupsOf(connections', homeLocation')

\* ---------------------------------------------------------- derived values
\* const activeArcGroups = groupMode === 'location' ? arcGroups : appGroups
ActiveArcGroups == IF groupMode = "location" THEN arcGroups.groups ELSE appGroups.groups

\* activeArcGroups.find(g => g.key === selectedArcGroupKey) || null
SelectedArcGroup ==
  IF selectedArcGroupKey = Null THEN Null
  ELSE LET at == GroupIndex(ActiveArcGroups, selectedArcGroupKey)
       IN IF at = 0 THEN Null ELSE ActiveArcGroups[at]

FilteredConnections ==
  IF SelectedArcGroup = Null THEN connections ELSE SelectedArcGroup.connections

\* ------------------------------------------------------- sequence helpers
Range(s) == {s[i] : i \in 1..Len(s)}

\* Array.prototype.filter
RECURSIVE FilterFresh(_, _)
FilterFresh(evs, cutoff) ==
  IF evs = <<>> THEN <<>>
  ELSE IF Head(evs).timestamp > cutoff
       THEN <<Head(evs)>> \o FilterFresh(Tail(evs), cutoff)
       ELSE FilterFresh(Tail(evs), cutoff)

\* s.slice(0, n)
FirstN(s, n) == IF Len(s) <= n THEN s ELSE SubSeq(s, 1, n)

\* s.slice(-n)
LastN(s, n) == IF Len(s) <= n THEN s ELSE SubSeq(s, Len(s) - n + 1, Len(s))

\* place x after every element that does not sort after it (stable)
RECURSIVE InsertByLastActive(_, _)
InsertByLastActive(sorted, x) ==
  IF sorted = <<>> THEN <<x>>
  ELSE IF Head(sorted).lastActive < x.lastActive THEN <<x>> \o sorted
  ELSE <<Head(sorted)>> \o InsertByLastActive(Tail(sorted), x)

\* updated.sort((a, b) => (b.lastActive || 0) - (a.lastActive || 0))
RECURSIVE SortByLastActive(_)
SortByLastActive(s) ==
  IF s = <<>> THEN <<>>
  ELSE InsertByLastActive(SortByLastActive(SubSeq(s, 1, Len(s) - 1)), s[Len(s)])

\* ------------------------------------------------------------------ inputs
\* process / pid a message can carry
ProcInputs == {[process |-> NoProcess, pid |-> 0], [process |-> ProcA, pid |-> 7]}

Packet(a, b, sg, dg, n, nf) ==
  [src_ip |-> a, dst_ip |-> b, src_geo |-> sg, dst_geo |-> dg, length |-> n,
   new_flow |-> nf, process |-> NoProcess, pid |-> 0]

\* packet messages of the capture stream: host 1 is the capturing machine (a
\* private address, no geo), 2 and 3 are remote hosts; traffic with host 2
\* runs in both directions
PacketInputs ==
  {Packet(1, 2, NoGeo, GeoA, 100, nf) : nf \in BOOLEAN} \cup
  {Packet(2, 1, GeoA, NoGeo, 250, FALSE)} \cup
  {Packet(1, 3, NoGeo, GeoUnknown, 100, nf) : nf \in BOOLEAN}

\* resolved values a geo_update or an online lookup can deliver
ResolvedGeos == {GeoS}

\* ----------------------------------------------------------------- Init
Init ==
  /\ connections = <<>>
  /\ packetEvents = <<>>
  /\ stats = ZeroStats
  /\ pendingPacketEvents = <<>>
  /\ pendingNewConnections = <<>>
  /\ pendingConnectionUpdates = NoUpdates
  /\ pendingStats = ZeroStats
  /\ selectedConnectionId = Null
  /\ selectedArcGroupKey = Null
  /\ homeLocation = NoGeo
  /\ groupMode \in {"location", "app"}
  /\ arcGroups = NoGroups
  /\ appGroups = NoGroups
  /\ capturing = FALSE
  /\ wsRef = "null"
  /\ staleSockets = 0
  /\ lookups = {}
  /\ now = 0
  /\ nFlows = 0
  /\ nInputs = 0
  /\ credit = [u \in Uids |-> ZeroCredit]
  /\ window = ZeroWindow
  /\ hist = NoHist
  /\ viewMode = "3d"
  /\ controls = IdleControls
  /\ gesture = NoGesture
  /\ surface = StartSurface
  /\ planar = StartPlanar
  /\ camera = StartCamera
  /\ hover = NoHover

\* ----------------------------------------------------------- ws.onmessage
\* a new record that does not count the packet that created it
NewConnectionUncounted(d, uid) ==
  [id |-> <<d.src_ip, d.dst_ip, now>>, src_ip |-> d.src_ip, dst_ip |-> d.dst_ip,
   src_geo |-> d.src_geo, dst_geo |-> d.dst_geo, process |-> d.process,
   pid |-> d.pid, bytes |-> d.length, packets |-> 0, lastActive |-> now,
   uid |-> uid]

\* the record pushed for a new_flow packet
NewConnection(d, uid) ==
  [id |-> <<d.src_ip, d.dst_ip, now>>, src_ip |-> d.src_ip, dst_ip |-> d.dst_ip,
   src_geo |-> d.src_geo, dst_geo |-> d.dst_geo, process |-> d.process,
   pid |-> d.pid, bytes |-> d.length, packets |-> 1, lastActive |-> now,
   uid |-> uid]

\* the PacketEvent pushed for a packet with geo
NewPacketEvent(d) ==
  [connKey |-> PairKey(d.src_ip, d.dst_ip), src_ip |-> d.src_ip,
   dst_ip |-> d.dst_ip, src_geo |-> d.src_geo, dst_geo |-> d.dst_geo,
   timestamp |-> now, size |-> d.length]

\* a coalescing that keeps only the latest packet of a flow
CoalesceOverwrite(updates, key, length) ==
  (key :> [bytes |-> length, packets |-> 1, lastActive |-> now]) @@ updates

\* a coalescing that keeps the first packet of a flow and drops the rest
CoalesceFirstOnly(updates, key, length) ==
  IF key \in DOMAIN updates THEN updates
  ELSE (key :> [bytes |-> length, packets |-> 1, lastActive |-> now]) @@ updates

\* the else-if branch: accumulate into the pending Map
Coalesce(updates, key, length) ==
  IF key \in DOMAIN updates
  THEN [updates EXCEPT ![key] = [bytes |-> @.bytes + length,
                                 packets |-> @.packets + 1,
                                 lastActive |-> now]]
  ELSE (key :> [bytes |-> length, packets |-> 1, lastActive |-> now]) @@ updates

\* history: what the records in the store are owed for this event
CreditEvent(cr, key, length) ==
  [u \in Uids |->
     IF \E i \in 1..Len(connections) :
          connections[i].uid = u /\ ConnKey(connections[i]) = key
     THEN [cr[u] EXCEPT !.bytes = @ + length, !.packets = @ + 1]
     ELSE cr[u]]

\* a test that lets every new flow through
HasGeoOrNewFlow(d) == d.src_geo # NoGeo \/ d.dst_geo # NoGeo \/ d.new_flow

\* data.src_geo || data.dst_geo
HasGeo(d) == d.src_geo # NoGeo \/ d.dst_geo # NoGeo

OnPacket(d) ==
  LET hasGeo == HasGeo(d)
      key == PairKey(d.src_ip, d.dst_ip)
      isNew == d.new_flow /\ hasGeo
      isUpdate == ~d.new_flow /\ hasGeo
  IN
  /\ Alive
  /\ wsRef = "open"
  /\ nInputs < MaxInputs
  /\ isNew => nFlows < MaxFlows
  /\ pendingStats' = [packets |-> pendingStats.packets + 1,
                      flows |-> pendingStats.flows + (IF d.new_flow THEN 1 ELSE 0),
                      bytes |-> pendingStats.bytes + d.length]
  /\ pendingPacketEvents' = IF hasGeo THEN Append(pendingPacketEvents, NewPacketEvent(d))
                            ELSE pendingPacketEvents
  /\ pendingNewConnections' = IF isNew
                              THEN Append(pendingNewConnections, NewConnection(d, nFlows + 1))
                              ELSE pendingNewConnections
  /\ pendingConnectionUpdates' = IF isUpdate
                                 THEN Coalesce(pendingConnectionUpdates, key, d.length)
                                 ELSE pendingConnectionUpdates
  /\ nInputs' = nInputs + 1
  /\ nFlows' = IF isNew THEN nFlows + 1 ELSE nFlows
  /\ credit' = IF isUpdate THEN CreditEvent(credit, key, d.length) ELSE credit
  /\ window' = IF isNew
               THEN [window EXCEPT ![key] = [@ EXCEPT !.newFlows = @ + 1,
                                                      !.newBytes = @ + d.length]]
               ELSE IF isUpdate
               THEN [window EXCEPT ![key] =
                       [@ EXCEPT !.updPackets = @ + 1,
                                 !.updBytes = @ + d.length,
                                 !.early = IF window[key].newFlows = 0
                                           THEN @ + 1 ELSE @]]
               ELSE IF ~d.new_flow
               THEN [window EXCEPT ![key] = [@ EXCEPT !.barePackets = @ + 1,
                                                      !.bareBytes = @ + d.length]]
               ELSE window
  /\ UNCHANGED <<pointerVars, viewVars>>
  /\ hist' = NoHist
  /\ UNCHANGED <<storeVars, selectionVars, homeLocation, groupMode, arcGroups,
                 appGroups, socketVars, lookups, now>>

\* prev.map(...) of the geo_update branch
PatchGeo(conns, ip, geo) ==
  [i \in 1..Len(conns) |->
     LET c == conns[i]
         u1 == IF c.dst_ip = ip /\ c.dst_geo # NoGeo /\ c.dst_geo.unknown
               THEN [c EXCEPT !.dst_geo = geo] ELSE c
     IN IF c.src_ip = ip /\ c.src_geo # NoGeo /\ c.src_geo.unknown
        THEN [u1 EXCEPT !.src_geo = geo] ELSE u1]

OnGeoUpdate(ip, geo) ==
  /\ Alive
  /\ wsRef = "open"
  /\ connections' = PatchGeo(connections, ip, geo)
  /\ UNCHANGED <<pointerVars, viewVars>>
  /\ hist' = NoHist
  /\ UNCHANGED <<packetEvents, stats, pendingVars, selectionVars, homeLocation,
                 groupMode, socketVars, lookups, now, counterVars, credit, window>>
  /\ Render

\* a patch that replaces a process already known
PatchProcessOverwrite(conns, src_ip, dst_ip, process, pid) ==
  [i \in 1..Len(conns) |->
     LET c == conns[i]
     IN IF \/ (c.src_ip = src_ip /\ c.dst_ip = dst_ip)
           \/ (c.src_ip = dst_ip /\ c.dst_ip = src_ip)
        THEN [c EXCEPT !.process = process, !.pid = pid] ELSE c]

\* prev.map(...) of the process_update branch
PatchProcess(conns, src_ip, dst_ip, process, pid) ==
  [i \in 1..Len(conns) |->
     LET c == conns[i]
     IN IF /\ \/ (c.src_ip = src_ip /\ c.dst_ip = dst_ip)
              \/ (c.src_ip = dst_ip /\ c.dst_ip = src_ip)
           /\ c.process = NoProcess
        THEN [c EXCEPT !.process = process, !.pid = pid] ELSE c]

OnProcessUpdate(src_ip, dst_ip, p) ==
  /\ Alive
  /\ wsRef = "open"
  /\ connections' = PatchProcess(connections, src_ip, dst_ip, p.process, p.pid)
  /\ UNCHANGED <<pointerVars, viewVars>>
  /\ hist' = NoHist
  /\ UNCHANGED <<packetEvents, stats, pendingVars, selectionVars, homeLocation,
                 groupMode, socketVars, lookups, now, counterVars, credit, window>>
  /\ Render

\* the { type: 'error' } branch
OnErrorMessage ==
  /\ Alive
  /\ wsRef = "open"
  /\ capturing' = FALSE
  /\ UNCHANGED <<pointerVars, viewVars>>
  /\ hist' = NoHist
  /\ UNCHANGED <<storeVars, pendingVars, selectionVars, homeLocation, groupMode,
                 arcGroups, appGroups, wsRef, staleSockets, lookups, now,
                 counterVars, credit, window>>

\* payloads that are not a well-formed event: text that is no JSON, the JSON
\* value null, an object without type, a geo_update without geo, a packet
\* without any field
MalformedMessages ==
  {"unparseable", "null", "no_type", "geo_update_no_geo", "packet_no_fields"}

\* JSON.parse(event.data) throws a SyntaxError, data.type of null and
\* geo.city of undefined throw a TypeError
MessageThrows(m) == m \in {"unparseable", "null", "geo_update_no_geo"}

\* ws.onmessage on such a payload: the handler ends at the throw; an object
\* without type matches no branch; a bare packet is counted in the stats
OnMalformed(m) ==
  /\ Alive
  /\ wsRef = "open"
  /\ nInputs < MaxInputs
  /\ nInputs' = nInputs + 1
  /\ pendingStats' = IF m = "packet_no_fields"
                     THEN [pendingStats EXCEPT !.packets = @ + 1]
                     ELSE pendingStats
  /\ UNCHANGED <<pointerVars, viewVars>>
  /\ hist' = [op |-> "onmessage", threw |-> MessageThrows(m)]
  /\ UNCHANGED <<storeVars, pendingPacketEvents, pendingNewConnections,
                 pendingConnectionUpdates, selectionVars, homeLocation, groupMode,
                 arcGroups, appGroups, socketVars, lookups, now, nFlows, credit,
                 window>>

\* --------------------------------------------------- flushBatchedUpdates
\* a trim that keeps the oldest events
FlushPacketEventsKeepOldest(prev, newPacketEvents, cutoff) ==
  IF Len(newPacketEvents) > 0
  THEN FirstN(FilterFresh(prev, cutoff) \o newPacketEvents, MAX_PACKET_EVENTS)
  ELSE FilterFresh(prev, cutoff)

\* a flush that prunes only when new events arrive
FlushPacketEventsIdleKeep(prev, newPacketEvents, cutoff) ==
  IF Len(newPacketEvents) > 0
  THEN LastN(FilterFresh(prev, cutoff) \o newPacketEvents, MAX_PACKET_EVENTS)
  ELSE prev

\* the two setPacketEvents updaters
FlushPacketEvents(prev, newPacketEvents, cutoff) ==
  IF Len(newPacketEvents) > 0
  THEN LastN(FilterFresh(prev, cutoff) \o newPacketEvents, MAX_PACKET_EVENTS)
  ELSE FilterFresh(prev, cutoff)

\* an insert that never truncates
InsertConnectionsUnbounded(prev, newConnections) == newConnections \o prev

\* setConnections(prev => [...newConnections, ...prev].slice(0, MAX_CONNECTIONS))
InsertConnections(prev, newConnections) ==
  IF Len(newConnections) > 0
  THEN FirstN(newConnections \o prev, MAX_CONNECTIONS)
  ELSE prev

\* an updater that stores the delta in place of the sum
ApplyDeltaReplace(conn, connectionUpdates) ==
  IF ConnKey(conn) \in DOMAIN connectionUpdates
  THEN LET update == connectionUpdates[ConnKey(conn)]
       IN [conn EXCEPT !.bytes = update.bytes,
                       !.packets = update.packets,
                       !.lastActive = update.lastActive]
  ELSE conn

\* prev.map(...) of the updates updater
ApplyDelta(conn, connectionUpdates) ==
  IF ConnKey(conn) \in DOMAIN connectionUpdates
  THEN LET update == connectionUpdates[ConnKey(conn)]
       IN [conn EXCEPT !.bytes = @ + update.bytes,
                       !.packets = @ + update.packets,
                       !.lastActive = update.lastActive]
  ELSE conn

\* the updates updater: map, then sort by lastActive descending
\* an updates updater that leaves the store in the order it had
ApplyUpdatesUnsorted(prev, connectionUpdates) ==
  [i \in 1..Len(prev) |-> ApplyDelta(prev[i], connectionUpdates)]

ApplyUpdates(prev, connectionUpdates) ==
  IF connectionUpdates # NoUpdates
  THEN SortByLastActive([i \in 1..Len(prev) |-> ApplyDelta(prev[i], connectionUpdates)])
  ELSE prev

\* setStats(prev => ...)
FlushStats(prev, statsUpdate) ==
  IF statsUpdate.packets > 0 \/ statsUpdate.flows > 0 \/ statsUpdate.bytes > 0
  THEN [packets |-> prev.packets + statsUpdate.packets,
        flows |-> prev.flows + statsUpdate.flows,
        bytes |-> prev.bytes + statsUpdate.bytes]
  ELSE prev

\* history: a record that enters the store starts with what it holds then;
\* a stored record that takes a delta has completed one more flush cycle
CreditFlush(cr, before, after, connectionUpdates) ==
  [u \in Uids |->
     IF \E i \in 1..Len(after) : after[i].uid = u
     THEN LET r == CHOOSE c \in Range(after) : c.uid = u
          IN IF \E j \in 1..Len(before) : before[j].uid = u
             THEN IF ConnKey(r) \in DOMAIN connectionUpdates
                  THEN [cr[u] EXCEPT !.cycles = @ + 1]
                  ELSE cr[u]
             ELSE [bytes |-> r.bytes, packets |-> r.packets, cycles |-> 0]
     ELSE ZeroCredit]

\* history: what a flush that runs now acts on
FlushHist ==
  [op |-> "flush", prev |-> connections, batch |-> pendingNewConnections,
   events |-> pendingPacketEvents, win |-> window,
   pruned |-> Len(packetEvents)
              - Len(FilterFresh(packetEvents, now - PACKET_EVENT_TTL_MS))]

Flush ==
  LET cutoff == now - PACKET_EVENT_TTL_MS
      inserted == InsertConnections(connections, pendingNewConnections)
      updated == ApplyUpdates(inserted, pendingConnectionUpdates)
  IN
  /\ Alive
  /\ packetEvents' = FlushPacketEvents(packetEvents, pendingPacketEvents, cutoff)
  /\ connections' = updated
  /\ stats' = FlushStats(stats, pendingStats)
  /\ pendingPacketEvents' = <<>>
  /\ pendingNewConnections' = <<>>
  /\ pendingConnectionUpdates' = NoUpdates
  /\ pendingStats' = ZeroStats
  /\ credit' = CreditFlush(credit, connections, updated, pendingConnectionUpdates)
  /\ window' = ZeroWindow
  /\ UNCHANGED <<pointerVars, viewVars>>
  /\ hist' = FlushHist
  /\ UNCHANGED <<selectionVars, homeLocation, groupMode, socketVars, lookups,
                 now, counterVars>>
  /\ Render

\* time passes between two callbacks
Tick(d) ==
  /\ Alive
  /\ nInputs < MaxInputs
  /\ now' = now + d
  /\ nInputs' = nInputs + 1
  /\ UNCHANGED <<pointerVars, viewVars>>
  /\ hist' = NoHist
  /\ UNCHANGED <<storeVars, pendingVars, selectionVars, homeLocation, groupMode,
                 arcGroups, appGroups, socketVars, lookups, nFlows, credit,
                 window>>

\* time passes, up to the end of the modelled run
Elapse(d) ==
  /\ Alive
  /\ now + d <= MaxNow
  /\ now' = now + d
  /\ UNCHANGED <<pointerVars, viewVars>>
  /\ hist' = NoHist
  /\ UNCHANGED <<storeVars, pendingVars, selectionVars, homeLocation, groupMode,
                 arcGroups, appGroups, socketVars, lookups, counterVars, credit,
                 window>>

\* ------------------------------------------------------ capture control
\* wsRef.current.close() leaves a socket that was connecting or open closing:
\* its close event comes later
StaleAfterClose == IF wsRef \in {"connecting", "open"} THEN staleSockets + 1 ELSE staleSockets

startCapture ==
  /\ Alive
  /\ StaleAfterClose <= MaxStale
  /\ staleSockets' = StaleAfterClose
  /\ wsRef' = "connecting"
  /\ connections' = <<>>
  /\ packetEvents' = <<>>
  /\ stats' = ZeroStats
  /\ selectedConnectionId' = Null
  /\ selectedArcGroupKey' = Null
  /\ credit' = [u \in Uids |-> ZeroCredit]
  /\ UNCHANGED <<pointerVars, viewVars>>
  /\ hist' = [op |-> "startCapture"]
  /\ UNCHANGED <<pendingVars, homeLocation, groupMode, capturing, lookups, now,
                 counterVars, window>>
  /\ Render

\* ws.onopen of the current socket
OnOpen ==
  /\ Alive
  /\ wsRef = "connecting"
  /\ wsRef' = "open"
  /\ capturing' = TRUE
  /\ UNCHANGED <<pointerVars, viewVars>>
  /\ hist' = NoHist
  /\ UNCHANGED <<storeVars, pendingVars, selectionVars, homeLocation, groupMode,
                 arcGroups, appGroups, staleSockets, lookups, now, counterVars,
                 credit, window>>

\* ws.onclose / ws.onerror of the current socket: the connection failed or
\* the server ended it
OnClose ==
  /\ Alive
  /\ wsRef \in {"connecting", "open"}
  /\ wsRef' = "closed"
  /\ capturing' = FALSE
  /\ UNCHANGED <<pointerVars, viewVars>>
  /\ hist' = NoHist
  /\ UNCHANGED <<storeVars, pendingVars, selectionVars, homeLocation, groupMode,
                 arcGroups, appGroups, staleSockets, lookups, now, counterVars,
                 credit, window>>

\* ws.onclose of a socket that startCapture or stopCapture closed
OnStaleClose ==
  /\ Alive
  /\ staleSockets > 0
  /\ staleSockets' = staleSockets - 1
  /\ capturing' = FALSE
  /\ UNCHANGED <<pointerVars, viewVars>>
  /\ hist' = NoHist
  /\ UNCHANGED <<storeVars, pendingVars, selectionVars, homeLocation, groupMode,
                 arcGroups, appGroups, wsRef, lookups, now, counterVars, credit,
                 window>>

stopCapture ==
  /\ Alive
  /\ StaleAfterClose <= MaxStale
  /\ staleSockets' = StaleAfterClose
  /\ wsRef' = "null"
  /\ capturing' = FALSE
  /\ UNCHANGED <<pointerVars, viewVars>>
  /\ hist' = NoHist
  /\ UNCHANGED <<storeVars, pendingVars, selectionVars, homeLocation, groupMode,
                 arcGroups, appGroups, lookups, now, counterVars, credit, window>>

clearConnections ==
  /\ Alive
  /\ connections' = <<>>
  /\ stats' = ZeroStats
  /\ selectedConnectionId' = Null
  /\ selectedArcGroupKey' = Null
  /\ credit' = [u \in Uids |-> ZeroCredit]
  /\ UNCHANGED <<pointerVars, viewVars>>
  /\ hist' = [op |-> "clearConnections"]
  /\ UNCHANGED <<packetEvents, pendingVars, homeLocation, groupMode, socketVars,
                 lookups, now, counterVars, window>>
  /\ Render

\* ------------------------------------------------------------ selection
\* conn?.id || null
IdOf(conn) == IF conn = Null THEN Null ELSE conn.id

\* group?.key || null
KeyOf(group) == IF group = Null THEN Null ELSE group.key

\* a table row is clicked (conn), or the detail panel is closed (null)
handleSelectConnection(conn) ==
  /\ Alive
  /\ selectedConnectionId' = IdOf(conn)
  /\ UNCHANGED <<pointerVars, viewVars>>
  /\ hist' = [op |-> "handleSelectConnection"]
  /\ UNCHANGED <<storeVars, pendingVars, selectedArcGroupKey, homeLocation,
                 groupMode, arcGroups, appGroups, socketVars, lookups, now,
                 counterVars, credit, window>>

\* a group selection that keeps the selected connection
handleSelectArcGroupKeepId(group) ==
  /\ Alive
  /\ selectedArcGroupKey' = KeyOf(group)
  /\ UNCHANGED <<pointerVars, viewVars>>
  /\ hist' = [op |-> "handleSelectArcGroup"]
  /\ UNCHANGED <<storeVars, pendingVars, selectedConnectionId, homeLocation,
                 groupMode, arcGroups, appGroups, socketVars, lookups, now,
                 counterVars, credit, window>>

\* a click on the map hit a group (group), or hit nothing (null)
handleSelectArcGroup(group) ==
  /\ Alive
  /\ selectedArcGroupKey' = KeyOf(group)
  /\ selectedConnectionId' = Null
  /\ UNCHANGED <<pointerVars, viewVars>>
  /\ hist' = [op |-> "handleSelectArcGroup"]
  /\ UNCHANGED <<storeVars, pendingVars, homeLocation, groupMode, arcGroups,
                 appGroups, socketVars, lookups, now, counterVars, credit, window>>

clearArcFilter ==
  /\ Alive
  /\ selectedArcGroupKey' = Null
  /\ UNCHANGED <<pointerVars, viewVars>>
  /\ hist' = [op |-> "clearArcFilter"]
  /\ UNCHANGED <<storeVars, pendingVars, selectedConnectionId, homeLocation,
                 groupMode, arcGroups, appGroups, socketVars, lookups, now,
                 counterVars, credit, window>>

\* onSetGroupMode={(mode) => { setGroupMode(mode); setSelectedArcGroupKey(null) }}
onSetGroupMode(mode) ==
  /\ Alive
  /\ groupMode' = mode
  /\ selectedArcGroupKey' = Null
  /\ UNCHANGED <<pointerVars, viewVars>>
  /\ hist' = [op |-> "onSetGroupMode"]
  /\ UNCHANGED <<storeVars, pendingVars, selectedConnectionId, homeLocation,
                 arcGroups, appGroups, socketVars, lookups, now, counterVars,
                 credit, window>>

\* onSetLocation={setHomeLocation}: the modal delivers a location with lat and lon
setHomeLocation(location) ==
  /\ Alive
  /\ homeLocation' = location
  /\ UNCHANGED connections
  /\ UNCHANGED <<pointerVars, viewVars>>
  /\ hist' = [op |-> "setHomeLocation"]
  /\ UNCHANGED <<packetEvents, stats, pendingVars, selectionVars, groupMode,
                 socketVars, lookups, now, counterVars, credit, window>>
  /\ Render

\* -------------------------------------------------------------- lookupIP
\* connections.find(c => c.id === selectedConnectionId) || null
SelectedConnection ==
  IF selectedConnectionId = Null THEN Null
  ELSE IF \E i \in 1..Len(connections) : connections[i].id = selectedConnectionId
  THEN connections[CHOOSE i \in 1..Len(connections) :
                     /\ connections[i].id = selectedConnectionId
                     /\ \A j \in 1..(i - 1) : connections[j].id # selectedConnectionId]
  ELSE Null

\* the Lookup button of the detail panel: fetch(`/api/lookup/${ip}`) starts
lookupIP ==
  /\ Alive
  /\ SelectedConnection # Null
  /\ SelectedConnection.dst_geo # NoGeo
  /\ SelectedConnection.dst_geo.unknown
  /\ lookups' = lookups \cup {SelectedConnection.dst_ip}
  /\ UNCHANGED <<pointerVars, viewVars>>
  /\ hist' = NoHist
  /\ UNCHANGED <<storeVars, pendingVars, selectionVars, homeLocation, groupMode,
                 arcGroups, appGroups, socketVars, now, counterVars, credit, window>>

\* prev.map(...) of lookupIP: the first matching end only
PatchLookup(conns, ip, data) ==
  [i \in 1..Len(conns) |->
     LET c == conns[i]
     IN IF c.dst_ip = ip /\ c.dst_geo # NoGeo /\ c.dst_geo.unknown
        THEN [c EXCEPT !.dst_geo = data]
        ELSE IF c.src_ip = ip /\ c.src_geo # NoGeo /\ c.src_geo.unknown
        THEN [c EXCEPT !.src_geo = data]
        ELSE c]

\* the fetch resolves with a located answer (data.lat && data.lon && !data.error)
lookupResolved(ip, data) ==
  /\ Alive
  /\ ip \in lookups
  /\ lookups' = lookups \ {ip}
  /\ connections' = PatchLookup(connections, ip, data)
  /\ UNCHANGED <<pointerVars, viewVars>>
  /\ hist' = NoHist
  /\ UNCHANGED <<packetEvents, stats, pendingVars, selectionVars, homeLocation,
                 groupMode, socketVars, now, counterVars, credit, window>>
  /\ Render

\* the fetch fails, or answers without a location: nothing is patched
lookupFailed(ip) ==
  /\ Alive
  /\ ip \in lookups
  /\ lookups' = lookups \ {ip}
  /\ UNCHANGED <<pointerVars, viewVars>>
  /\ hist' = NoHist
  /\ UNCHANGED <<storeVars, pendingVars, selectionVars, homeLocation, groupMode,
                 arcGroups, appGroups, socketVars, now, counterVars, credit, window>>

\* ------------------------------------------------------------ viewports
\* A zoom factor is a whole number of thousandths. A pan is a whole number of
\* PanUnit-ths of a pixel, so that the bound (w * z - w) / 2 of constrainPan is
\* a whole number. Products and quotients are rounded down to these units.
Min(a, b) == IF a < b THEN a ELSE b
Max(a, b) == IF a > b THEN a ELSE b

\* constrainPan(newPan, z, w, h)
constrainPan(newPan, z, w, h) ==
  LET maxPanX == Max(0, w * (z - ZoomUnit))
      maxPanY == Max(0, h * (z - ZoomUnit))
  IN [x |-> Max(0 - maxPanX, Min(maxPanX, newPan.x)),
      y |-> Max(0 - maxPanY, Min(maxPanY, newPan.y))]

\* handleWheel: Math.max(1, Math.min(8, zoom * delta)), delta 0.85 or 1.15
WheelZoom(zoom, deltaY) ==
  Max(PlanarZoomMin,
      Min(PlanarZoomMax,
          IF deltaY > 0 THEN (zoom * 85) \div 100 ELSE (zoom * 115) \div 100))

\* handleWheel: the pan that keeps the point under the pointer in place; off
\* is the pointer position relative to the centre of the surface, in pixels
WheelPan(pan, zoom, newZoom, off) ==
  [x |-> (PanUnit * off.x * (zoom - newZoom) + pan.x * newZoom) \div zoom,
   y |-> (PanUnit * off.y * (zoom - newZoom) + pan.y * newZoom) \div zoom]

\* goHome of the WorldMap: the pan that centres home at zoom newZoom;
\* baseX - centerX is w * lon / 360 and baseY - centerY is - h * lat / 180
HomePan(home, newZoom, w, h) ==
  [x |-> 0 - (((PanUnit \div ZoomUnit) * w * home.lon * newZoom) \div 36000),
   y |-> ((PanUnit \div ZoomUnit) * h * home.lat * newZoom) \div 18000]

\* a wheel of the Globe that is not clamped
GlobeWheelFree(targetZoom, deltaY) == targetZoom + 2 * deltaY

\* onWheel of the Globe: Math.max(1.5, Math.min(6, targetZoom + deltaY * 0.002))
GlobeWheel(targetZoom, deltaY) ==
  Max(GlobeZoomMin, Min(GlobeZoomMax, targetZoom + 2 * deltaY))

\* controls.zoom += (controls.targetZoom - controls.zoom) * 0.1
Ease(zoom, targetZoom) == zoom + ((targetZoom - zoom) \div 10)

\* the hover update of both projections: the state changes when the key does
HoverUpdate(hovered, hit) == IF KeyOf(hit) # KeyOf(hovered) THEN hit ELSE hovered

\* ------------------------------------------------- pointer on the map view
\* the call a click handler makes to onSelectArcGroup, if any
NoCall == [called |-> FALSE, group |-> Null]
SelectCall(group) == [called |-> TRUE, group |-> group]

\* handleSelectArcGroup as run by a click handler
ApplyCall(call) ==
  /\ selectedArcGroupKey' = IF call.called THEN KeyOf(call.group) ELSE selectedArcGroupKey
  /\ selectedConnectionId' = IF call.called THEN Null ELSE selectedConnectionId

\* Globe: mousedown on the container
onMouseDown ==
  /\ Alive
  /\ viewMode = "3d"
  /\ ~gesture.pressed
  /\ controls' = [isDragging |-> TRUE, dragDist |-> 0]
  /\ gesture' = [pressed |-> TRUE, moved |-> 0]
  /\ UNCHANGED viewVars
  /\ hist' = NoHist
  /\ UNCHANGED <<storeVars, pendingVars, selectionVars, homeLocation, groupMode,
                 arcGroups, appGroups, socketVars, lookups, now, counterVars,
                 credit, window, viewMode>>

\* onMouseMoveHover of the Globe: the raycast at the pointer hits a node or an
\* arc of hit, or nothing (null)
onMouseMoveHover(hit) ==
  IF now - hover.last < HoverThrottle THEN hover
  ELSE IF controls.isDragging THEN [hover EXCEPT !.last = now]
  ELSE [group |-> HoverUpdate(hover.group, hit), last |-> now]

\* Globe: mousemove on the container (onMouseMoveAll), with a button down or not
onMouseMove(dist, hit) ==
  /\ Alive
  /\ viewMode = "3d"
  /\ gesture.pressed => gesture.moved + dist <= MaxMoved
  /\ controls' = IF controls.isDragging
                 THEN [controls EXCEPT !.dragDist = @ + dist]
                 ELSE controls
  /\ gesture' = IF gesture.pressed THEN [gesture EXCEPT !.moved = @ + dist]
                ELSE gesture
  /\ hover' = onMouseMoveHover(hit)
  /\ UNCHANGED <<surface, planar, camera>>
  /\ hist' = NoHist
  /\ UNCHANGED <<storeVars, pendingVars, selectionVars, homeLocation, groupMode,
                 arcGroups, appGroups, socketVars, lookups, now, counterVars,
                 credit, window, viewMode>>

\* Globe: the pointer leaves the container (and may come back)
onMouseLeave ==
  /\ Alive
  /\ viewMode = "3d"
  /\ controls.isDragging \/ hover.group # Null
  /\ controls' = [controls EXCEPT !.isDragging = FALSE]
  /\ hover' = [hover EXCEPT !.group = Null]
  /\ UNCHANGED <<surface, planar, camera>>
  /\ hist' = NoHist
  /\ UNCHANGED <<storeVars, pendingVars, selectionVars, homeLocation, groupMode,
                 arcGroups, appGroups, socketVars, lookups, now, counterVars,
                 credit, window, viewMode, gesture>>

\* Globe handleClick: the raycast hit a node or an arc of hit, or nothing (null)
GlobeHandleClick(hit) == SelectCall(hit)

\* Globe: mouseup on the container
onMouseUp(hit) ==
  LET wasDragging == controls.isDragging
      clicked == wasDragging /\ controls.dragDist < ClickThreshold
      call == IF clicked THEN GlobeHandleClick(hit) ELSE NoCall
  IN
  /\ Alive
  /\ viewMode = "3d"
  /\ gesture.pressed
  /\ controls' = [controls EXCEPT !.isDragging = FALSE]
  /\ gesture' = NoGesture
  /\ ApplyCall(call)
  /\ UNCHANGED viewVars
  /\ hist' = [op |-> "release", view |-> viewMode, moved |-> gesture.moved,
              clicked |-> clicked, called |-> call.called, hit |-> KeyOf(hit),
              prevKey |-> selectedArcGroupKey]
  /\ UNCHANGED <<storeVars, pendingVars, homeLocation, groupMode, arcGroups,
                 appGroups, socketVars, lookups, now, counterVars, credit, window,
                 viewMode>>

\* WorldMap: mousedown on the canvas
handleMouseDown ==
  /\ Alive
  /\ viewMode = "2d"
  /\ ~gesture.pressed
  /\ controls' = [isDragging |-> TRUE, dragDist |-> 0]
  /\ gesture' = [pressed |-> TRUE, moved |-> 0]
  /\ UNCHANGED viewVars
  /\ hist' = NoHist
  /\ UNCHANGED <<storeVars, pendingVars, selectionVars, homeLocation, groupMode,
                 arcGroups, appGroups, socketVars, lookups, now, counterVars,
                 credit, window, viewMode>>

\* WorldMap: mousemove on the canvas while a button is down, dist pixels to
\* the right; a drag moves the pan
handleMouseMove(dist) ==
  /\ Alive
  /\ viewMode = "2d"
  /\ gesture.pressed
  /\ gesture.moved + dist <= MaxMoved
  /\ controls' = IF controls.isDragging
                 THEN [controls EXCEPT !.dragDist = @ + dist]
                 ELSE controls
  /\ gesture' = [gesture EXCEPT !.moved = @ + dist]
  /\ planar' = IF controls.isDragging
               THEN [planar EXCEPT !.pan =
                       constrainPan([x |-> planar.pan.x + PanUnit * dist,
                                     y |-> planar.pan.y],
                                    planar.zoom, surface.w, surface.h)]
               ELSE planar
  /\ UNCHANGED <<surface, camera, hover>>
  /\ hist' = NoHist
  /\ UNCHANGED <<storeVars, pendingVars, selectionVars, homeLocation, groupMode,
                 arcGroups, appGroups, socketVars, lookups, now, counterVars,
                 credit, window, viewMode>>

\* WorldMap: the pointer leaves the canvas (and may come back)
handleMouseLeave ==
  /\ Alive
  /\ viewMode = "2d"
  /\ controls.isDragging \/ hover.group # Null
  /\ controls' = [controls EXCEPT !.isDragging = FALSE]
  /\ hover' = [hover EXCEPT !.group = Null]
  /\ UNCHANGED <<surface, planar, camera>>
  /\ hist' = [op |-> "leave"]
  /\ UNCHANGED <<storeVars, pendingVars, selectionVars, homeLocation, groupMode,
                 arcGroups, appGroups, socketVars, lookups, now, counterVars,
                 credit, window, viewMode, gesture>>

\* a WorldMap click handler that leaves the selection when nothing is hit
MapHandleClickKeep(dragDist, hit) ==
  IF dragDist > ClickThreshold \/ hit = Null THEN NoCall ELSE SelectCall(hit)

\* WorldMap handleClick: the click position is on a node or an arc of hit, or
\* on nothing (null)
MapHandleClick(dragDist, hit) ==
  IF dragDist > ClickThreshold THEN NoCall ELSE SelectCall(hit)

\* WorldMap: mouseup on the canvas, then the click event of the same release
handleMouseUp(hit) ==
  LET clicked == ~(controls.dragDist > ClickThreshold)
      call == MapHandleClick(controls.dragDist, hit)
  IN
  /\ Alive
  /\ viewMode = "2d"
  /\ gesture.pressed
  /\ controls' = [controls EXCEPT !.isDragging = FALSE]
  /\ gesture' = NoGesture
  /\ ApplyCall(call)
  /\ UNCHANGED viewVars
  /\ hist' = [op |-> "release", view |-> viewMode, moved |-> gesture.moved,
              clicked |-> clicked, called |-> call.called, hit |-> KeyOf(hit),
              prevKey |-> selectedArcGroupKey]
  /\ UNCHANGED <<storeVars, pendingVars, homeLocation, groupMode, arcGroups,
                 appGroups, socketVars, lookups, now, counterVars, credit, window,
                 viewMode>>

\* the 3D / 2D toggle: the other projection is mounted with fresh controls,
\* viewport and hover state
setViewMode(mode) ==
  /\ Alive
  /\ ~gesture.pressed
  /\ viewMode' = mode
  /\ controls' = IF mode = viewMode THEN controls ELSE IdleControls
  /\ planar' = IF mode = viewMode THEN planar ELSE StartPlanar
  /\ camera' = IF mode = viewMode THEN camera ELSE StartCamera
  /\ hover' = IF mode = viewMode THEN hover ELSE NoHover
  /\ UNCHANGED surface
  /\ hist' = NoHist
  /\ UNCHANGED <<storeVars, pendingVars, selectionVars, homeLocation, groupMode,
                 arcGroups, appGroups, socketVars, lookups, now, counterVars,
                 credit, window, gesture>>

\* ---------------------------------------------- viewport controls and frames
\* pointer positions of a wheel event, relative to the centre of the surface:
\* the centre and the top left corner
WheelPoints ==
  {NoPan, [x |-> 0 - (surface.w \div 2), y |-> 0 - (surface.h \div 2)]}

\* WorldMap: wheel over the canvas (deltaY > 0 zooms out)
handleWheel(deltaY, off) ==
  LET newZoom == WheelZoom(planar.zoom, deltaY)
      newPan == WheelPan(planar.pan, planar.zoom, newZoom, off)
  IN
  /\ Alive
  /\ viewMode = "2d"
  /\ nInputs < MaxInputs
  /\ nInputs' = nInputs + 1
  /\ planar' = [zoom |-> newZoom,
                pan |-> constrainPan(newPan, newZoom, surface.w, surface.h)]
  /\ UNCHANGED <<surface, camera, hover>>
  /\ hist' = NoHist
  /\ UNCHANGED <<storeVars, pendingVars, selectionVars, homeLocation, groupMode,
                 arcGroups, appGroups, socketVars, lookups, now, nFlows, credit,
                 window, pointerVars>>

\* setZoom(z => Math.min(8, z * 1.5))
ZoomIn(z) == Min(PlanarZoomMax, (z * 3) \div 2)

\* WorldMap: the + button
zoomIn ==
  /\ Alive
  /\ viewMode = "2d"
  /\ nInputs < MaxInputs
  /\ nInputs' = nInputs + 1
  /\ planar' = [planar EXCEPT !.zoom = ZoomIn(@)]
  /\ UNCHANGED <<surface, camera, hover>>
  /\ hist' = NoHist
  /\ UNCHANGED <<storeVars, pendingVars, selectionVars, homeLocation, groupMode,
                 arcGroups, appGroups, socketVars, lookups, now, nFlows, credit,
                 window, pointerVars>>

\* WorldMap: the - button; the pan is clamped to the new zoom
zoomOut ==
  LET newZ == Max(PlanarZoomMin, (planar.zoom * 2) \div 3)
  IN
  /\ Alive
  /\ viewMode = "2d"
  /\ nInputs < MaxInputs
  /\ nInputs' = nInputs + 1
  /\ planar' = [zoom |-> newZ,
                pan |-> constrainPan(planar.pan, newZ, surface.w, surface.h)]
  /\ UNCHANGED <<surface, camera, hover>>
  /\ hist' = NoHist
  /\ UNCHANGED <<storeVars, pendingVars, selectionVars, homeLocation, groupMode,
                 arcGroups, appGroups, socketVars, lookups, now, nFlows, credit,
                 window, pointerVars>>

\* WorldMap goHome: centre on the home location at zoom 3, or reset the view
MapGoHome ==
  /\ Alive
  /\ viewMode = "2d"
  /\ nInputs < MaxInputs
  /\ nInputs' = nInputs + 1
  /\ planar' = IF homeLocation # NoGeo
               THEN [zoom |-> PlanarHomeZoom,
                     pan |-> constrainPan(HomePan(homeLocation, PlanarHomeZoom,
                                                  surface.w, surface.h),
                                          PlanarHomeZoom, surface.w, surface.h)]
               ELSE StartPlanar
  /\ UNCHANGED <<surface, camera, hover>>
  /\ hist' = NoHist
  /\ UNCHANGED <<storeVars, pendingVars, selectionVars, homeLocation, groupMode,
                 arcGroups, appGroups, socketVars, lookups, now, nFlows, credit,
                 window, pointerVars>>

\* WorldMap: the canvas takes a new size; the ResizeObserver callback sizes
\* the backing store (not for a zero size) and leaves zoom and pan alone
resize(size) ==
  /\ Alive
  /\ viewMode = "2d"
  /\ size # surface
  /\ nInputs < MaxInputs
  /\ nInputs' = nInputs + 1
  /\ surface' = size
  /\ UNCHANGED <<planar, camera, hover>>
  /\ hist' = NoHist
  /\ UNCHANGED <<storeVars, pendingVars, selectionVars, homeLocation, groupMode,
                 arcGroups, appGroups, socketVars, lookups, now, nFlows, credit,
                 window, pointerVars>>

\* Globe: the container takes a new size; handleResize sets the camera aspect
\* and the renderer size (not for a zero size)
handleResize(size) ==
  /\ Alive
  /\ viewMode = "3d"
  /\ size # surface
  /\ nInputs < MaxInputs
  /\ nInputs' = nInputs + 1
  /\ surface' = size
  /\ UNCHANGED <<planar, camera, hover>>
  /\ hist' = NoHist
  /\ UNCHANGED <<storeVars, pendingVars, selectionVars, homeLocation, groupMode,
                 arcGroups, appGroups, socketVars, lookups, now, nFlows, credit,
                 window, pointerVars>>

\* Globe: wheel over the container
onWheel(deltaY) ==
  /\ Alive
  /\ viewMode = "3d"
  /\ nInputs < MaxInputs
  /\ nInputs' = nInputs + 1
  /\ camera' = [camera EXCEPT !.targetZoom = GlobeWheel(@, deltaY)]
  /\ UNCHANGED <<surface, planar, hover>>
  /\ hist' = NoHist
  /\ UNCHANGED <<storeVars, pendingVars, selectionVars, homeLocation, groupMode,
                 arcGroups, appGroups, socketVars, lookups, now, nFlows, credit,
                 window, pointerVars>>

\* Globe goHome: the zoom target of the home view, or of the default view
GlobeGoHome ==
  /\ Alive
  /\ viewMode = "3d"
  /\ nInputs < MaxInputs
  /\ nInputs' = nInputs + 1
  /\ camera' = [camera EXCEPT !.targetZoom = IF homeLocation # NoGeo
                                             THEN GlobeHomeZoom
                                             ELSE GlobeStartZoom]
  /\ UNCHANGED <<surface, planar, hover>>
  /\ hist' = NoHist
  /\ UNCHANGED <<storeVars, pendingVars, selectionVars, homeLocation, groupMode,
                 arcGroups, appGroups, socketVars, lookups, now, nFlows, credit,
                 window, pointerVars>>

\* srcGeo / dstGeo of a live packet event: its own geo when that has a lat
\* and a lon, the home location otherwise
EventGeo(raw, home) ==
  IF raw # NoGeo /\ raw.lat # NoCoord /\ raw.lon # NoCoord THEN raw ELSE home

\* the markers a frame draws in live mode: one for every event of the window
\* that has both effective endpoints, a geo of its own, and an age of at most
\* PACKET_DURATION; progress is age / PACKET_DURATION, in thousandths
LiveMarkers(events, realNow, home) ==
  LET Drawn(e) == /\ EventGeo(e.src_geo, home) # NoGeo
                  /\ EventGeo(e.dst_geo, home) # NoGeo
                  /\ ~(e.src_geo = NoGeo /\ e.dst_geo = NoGeo)
                  /\ realNow - e.timestamp <= PACKET_DURATION
                  /\ realNow - e.timestamp >= 0
      shown == {i \in 1..Len(events) : Drawn(events[i])}
  IN [i \in shown |-> ((realNow - events[i].timestamp) * 1000) \div PACKET_DURATION]

\* the surface has a width and a height
Sized == surface.w # 0 /\ surface.h # 0

\* the hover check of a frame of the WorldMap: skipped with the frame on a
\* zero-sized surface, throttled otherwise
DrawHover(hit) ==
  IF Sized /\ now - hover.last > HoverThrottle
  THEN [group |-> HoverUpdate(hover.group, hit), last |-> now]
  ELSE hover

\* WorldMap: one frame of draw; hitTest at the pointer position returns hit
draw(hit) ==
  /\ Alive
  /\ viewMode = "2d"
  /\ hover' = DrawHover(hit)
  /\ UNCHANGED <<surface, planar, camera>>
  /\ hist' = [op |-> "frame", view |-> viewMode, sized |-> Sized,
              due |-> now - hover.last > HoverThrottle, under |-> KeyOf(hit),
              drew |-> Sized, scheduled |-> TRUE, moved |-> FALSE,
              markers |-> IF Sized
                          THEN LiveMarkers(packetEvents, now, homeLocation)
                          ELSE <<>>]
  /\ UNCHANGED <<storeVars, pendingVars, selectionVars, homeLocation, groupMode,
                 arcGroups, appGroups, socketVars, lookups, now, counterVars,
                 credit, window, pointerVars>>

\* Globe: one frame of animate; under is what lies under the pointer now (the
\* frame does not look at it)
animate(under) ==
  /\ Alive
  /\ viewMode = "3d"
  /\ camera' = [camera EXCEPT !.zoom = Ease(@, camera.targetZoom)]
  /\ UNCHANGED <<surface, planar, hover>>
  /\ hist' = [op |-> "frame", view |-> viewMode, sized |-> Sized,
              due |-> now - hover.last >= HoverThrottle, under |-> KeyOf(under),
              drew |-> TRUE, scheduled |-> TRUE,
              moved |-> Ease(camera.zoom, camera.targetZoom) # camera.zoom,
              markers |-> LiveMarkers(packetEvents, now, homeLocation)]
  /\ UNCHANGED <<storeVars, pendingVars, selectionVars, homeLocation, groupMode,
                 arcGroups, appGroups, socketVars, lookups, now, counterVars,
                 credit, window, pointerVars>>

\* ------------------------------------------------- hit test of the WorldMap
\* A canvas position is a whole number of PosUnit-ths of a pixel; positions
\* and sample points are rounded down to it. A distance is compared with a
\* radius by the squares, after the two coordinate differences were found
\* smaller than the radius (the squares then fit the integer width).
PosUnit == 10

\* toXY(lat, lon, w, h, z, p): baseX - centerX is w * lon / 360 and
\* baseY - centerY is - h * lat / 180
toXY(lat, lon, w, h, z, p) ==
  [x |-> ((((lon * w * PosUnit) \div 36000) * z) \div ZoomUnit)
           + ((w * PosUnit) \div 2) + (p.x \div (PanUnit \div PosUnit)),
   y |-> (((((0 - lat) * h * PosUnit) \div 18000) * z) \div ZoomUnit)
           + ((h * PosUnit) \div 2) + (p.y \div (PanUnit \div PosUnit))]

\* Math.sqrt(dx ** 2 + dy ** 2) < r
Near(dx, dy, r) ==
  /\ Abs(dx) < r
  /\ Abs(dy) < r
  /\ dx * dx + dy * dy < r * r

\* the largest k of lo..hi with k * k <= n
RECURSIVE SqrtBetween(_, _, _)
SqrtBetween(n, lo, hi) ==
  IF lo = hi THEN lo
  ELSE LET mid == (lo + hi + 1) \div 2
       IN IF mid * mid <= n THEN SqrtBetween(n, mid, hi)
          ELSE SqrtBetween(n, lo, mid - 1)

\* Math.sqrt of a number of at most 2^30, rounded down
Sqrt(n) == SqrtBetween(n, 0, 32768)

\* hitRadius and nodeHitRadius: base * Math.max(1, currentZoom * 0.5)
HitRadius(base, z) == (base * PosUnit * Max(ZoomUnit, z \div 2)) \div ZoomUnit

\* one group of the loop of hitTest: a node within nodeHitRadius, or a sample
\* point of the arc within hitRadius. The sample at t = 1, which the
\* accumulated step may or may not reach, is the destination node and adds
\* nothing to the node test.
GroupHit(group, mouseX, mouseY, w, h, z, p) ==
  LET src == toXY(group.srcGeo.lat, group.srcGeo.lon, w, h, z, p)
      dst == toXY(group.dstGeo.lat, group.dstGeo.lon, w, h, z, p)
      midX == (src.x + dst.x) \div 2
      dxPx == (dst.x - src.x) \div PosUnit
      dyPx == (dst.y - src.y) \div PosUnit
      screenDist == Sqrt(dxPx * dxPx + dyPx * dyPx)
      midY == Min(src.y, dst.y) - ((screenDist * PosUnit * 15) \div 100) - 15 * PosUnit
      numSamples == Min(100, Max(20, screenDist \div 10))
      px(i) == ((numSamples - i) * (numSamples - i) * src.x
                + 2 * (numSamples - i) * i * midX
                + i * i * dst.x) \div (numSamples * numSamples)
      py(i) == ((numSamples - i) * (numSamples - i) * src.y
                + 2 * (numSamples - i) * i * midY
                + i * i * dst.y) \div (numSamples * numSamples)
  IN /\ group.srcGeo # NoGeo
     /\ group.dstGeo # NoGeo
     /\ \/ Near(mouseX - src.x, mouseY - src.y, HitRadius(24, z))
        \/ Near(mouseX - dst.x, mouseY - dst.y, HitRadius(24, z))
        \/ \E i \in 0..(numSamples - 1) :
             Near(mouseX - px(i), mouseY - py(i), HitRadius(18, z))

\* a hit test that returns the last group of the set that is hit
hitTestLast(mouseX, mouseY, w, h, currentZoom, currentPan, currentArcGroups) ==
  LET hits == {i \in 1..Len(currentArcGroups) :
                 GroupHit(currentArcGroups[i], mouseX, mouseY, w, h,
                          currentZoom, currentPan)}
  IN IF hits = {} THEN 0 ELSE CHOOSE i \in hits : \A j \in hits : j <= i

\* hitTest: the index of the first group of the set that is hit, 0 for null
hitTest(mouseX, mouseY, w, h, currentZoom, currentPan, currentArcGroups) ==
  LET hits == {i \in 1..Len(currentArcGroups) :
                 GroupHit(currentArcGroups[i], mouseX, mouseY, w, h,
                          currentZoom, currentPan)}
  IN IF hits = {} THEN 0 ELSE CHOOSE i \in hits : \A j \in hits : i <= j

\* the render position of an endpoint node of a group
NodeXY(group, end) ==
  LET geo == IF end = "src" THEN group.srcGeo ELSE group.dstGeo
  IN toXY(geo.lat, geo.lon, surface.w, surface.h, planar.zoom, planar.pan)

\* WorldMap: one frame of draw on a sized surface, the pointer resting on an
\* endpoint node of the group at index at
drawAtNode(at, end) ==
  LET mousePos == NodeXY(ActiveArcGroups[at], end)
      found == hitTest(mousePos.x, mousePos.y, surface.w, surface.h,
                       planar.zoom, planar.pan, ActiveArcGroups)
      hit == IF found = 0 THEN Null ELSE ActiveArcGroups[found]
  IN
  /\ Alive
  /\ viewMode = "2d"
  /\ Sized
  /\ hover' = DrawHover(hit)
  /\ UNCHANGED <<surface, planar, camera>>
  /\ hist' = [op |-> "hit", at |-> at, end |-> end, mousePos |-> mousePos,
              found |-> found]
  /\ UNCHANGED <<storeVars, pendingVars, selectionVars, homeLocation, groupMode,
                 arcGroups, appGroups, socketVars, lookups, now, counterVars,
                 credit, window, pointerVars>>

\* mousePosRef while the pointer is off the canvas: its initial value, and
\* the value handleMouseLeave stores
AwayPos == [x |-> (0 - 1000) * PosUnit, y |-> (0 - 1000) * PosUnit]

\* WorldMap: one frame of draw on a sized surface while the pointer is off
\* the canvas
drawAway ==
  LET found == hitTest(AwayPos.x, AwayPos.y, surface.w, surface.h,
                       planar.zoom, planar.pan, ActiveArcGroups)
      hit == IF found = 0 THEN Null ELSE ActiveArcGroups[found]
  IN
  /\ Alive
  /\ viewMode = "2d"
  /\ Sized
  /\ hover' = DrawHover(hit)
  /\ UNCHANGED <<surface, planar, camera>>
  /\ hist' = [op |-> "away", due |-> now - hover.last > HoverThrottle,
              found |-> found]
  /\ UNCHANGED <<storeVars, pendingVars, selectionVars, homeLocation, groupMode,
                 arcGroups, appGroups, socketVars, lookups, now, counterVars,
                 credit, window, pointerVars>>

\* ------------------------------------------------------------------ Next
\* the capture pipeline: event arrivals, the flush timer, enrichment patches
\* and capture control
Next ==
  \/ \E d \in PacketInputs : OnPacket(d)
  \/ \E geo \in ResolvedGeos : OnGeoUpdate(3, geo)
  \/ OnProcessUpdate(3, 1, [process |-> ProcA, pid |-> 7])
  \/ OnErrorMessage
  \/ Flush
  \/ \E d \in TickSteps : Tick(d)
  \/ startCapture
  \/ OnOpen
  \/ OnClose
  \/ OnStaleClose
  \/ stopCapture
  \/ clearConnections

Spec == Init /\ [][Next]_vars

\* ------------------------------------------------- the Arc Aggregator alone
\* a record as a flush leaves it in the store
StoredRecord(n, a, b, sg, dg, proc) ==
  [id |-> <<a, b, n>>, src_ip |-> a, dst_ip |-> b, src_geo |-> sg, dst_geo |-> dg,
   process |-> proc, pid |-> IF proc = NoProcess THEN 0 ELSE 7,
   bytes |-> 150 * n - 50, packets |-> n, lastActive |-> MAX_CONNECTIONS - n,
   uid |-> n]

\* the geo values the event stream can attach to an endpoint, well formed or not
AggGeos == {NoGeo, GeoA, GeoA2, GeoS, GeoUnknown, GeoPending, GeoLatOnly}

AggRecords(n) ==
  {StoredRecord(n, 1, n + 1, sg, dg, proc) :
     sg \in AggGeos, dg \in AggGeos, proc \in {NoProcess, ProcA}}

\* stores of one or two records
AggStores ==
  {<<r>> : r \in AggRecords(1)} \cup
  {<<r1, r2>> : r1 \in AggRecords(1), r2 \in AggRecords(2)}

\* a running capture whose store holds the given records, everything flushed
Capturing(store) ==
  /\ connections = store
  /\ packetEvents = <<>>
  /\ stats = ZeroStats
  /\ pendingPacketEvents = <<>>
  /\ pendingNewConnections = <<>>
  /\ pendingConnectionUpdates = NoUpdates
  /\ pendingStats = ZeroStats
  /\ selectedConnectionId = Null
  /\ selectedArcGroupKey = Null
  /\ homeLocation = NoGeo
  /\ groupMode \in {"location", "app"}
  /\ arcGroups = ArcGroupsOf(store, NoGeo)
  /\ appGroups = AppGroupsOf(store, NoGeo)
  /\ capturing = TRUE
  /\ wsRef = "open"
  /\ staleSockets = 0
  /\ lookups = {}
  /\ now = 0
  /\ nFlows = Len(store)
  /\ nInputs = 0
  /\ credit = [u \in Uids |-> IF u <= Len(store)
                              THEN [bytes |-> store[u].bytes,
                                    packets |-> store[u].packets, cycles |-> 0]
                              ELSE ZeroCredit]
  /\ window = ZeroWindow
  /\ hist = NoHist
  /\ controls = IdleControls
  /\ gesture = NoGesture
  /\ camera = StartCamera
  /\ hover = NoHover

\* a running capture shown on the Globe, as after the first render
Running(store) ==
  /\ Capturing(store)
  /\ viewMode = "3d"
  /\ surface = StartSurface
  /\ planar = StartPlanar

InitAgg == \E store \in AggStores : Running(store)

NextAgg ==
  \/ setHomeLocation(GeoHome)
  \/ \E mode \in {"location", "app"} : onSetGroupMode(mode)

SpecAgg == InitAgg /\ [][NextAgg]_vars

\* --------------------------------------------------- selection and lookups
SelEnds == {<<NoGeo, GeoA>>, <<GeoA, GeoS>>, <<NoGeo, GeoUnknown>>}

\* records 1 -> 3, and a record of host 3 talking to itself, both ends unknown
SelRecords(n) ==
  {StoredRecord(n, 1, 3, e[1], e[2], proc) : e \in SelEnds, proc \in {NoProcess, ProcA}}
  \cup {StoredRecord(n, 3, 3, GeoUnknown, GeoUnknown, proc) : proc \in {NoProcess, ProcA}}

SelStores ==
  {<<r>> : r \in SelRecords(1)} \cup
  {<<r1, r2>> : r1 \in SelRecords(1), r2 \in SelRecords(2)}

InitSel == \E store \in SelStores : Running(store)

NextSel ==
  \/ \E conn \in Range(FilteredConnections) \cup {Null} : handleSelectConnection(conn)
  \/ \E group \in Range(ActiveArcGroups) \cup {Null} : handleSelectArcGroup(group)
  \/ clearArcFilter
  \/ \E mode \in {"location", "app"} : onSetGroupMode(mode)
  \/ setHomeLocation(GeoHome)
  \/ lookupIP
  \/ \E ip \in IPs, data \in ResolvedGeos : lookupResolved(ip, data)
  \/ \E ip \in IPs : lookupFailed(ip)
  \/ \E ip \in IPs, geo \in ResolvedGeos : OnGeoUpdate(ip, geo)
  \/ clearConnections

SpecSel == InitSel /\ [][NextSel]_vars

\* ------------------------------------------------------- message handling
\* the packets of the capture stream and packets that carry no geo at all
MsgPackets ==
  PacketInputs \cup {Packet(1, 2, NoGeo, NoGeo, 100, nf) : nf \in BOOLEAN}

\* the empty store, and stores of two records: a record 3 -> 1 or 1 -> 2
\* without a process, then a record 1 -> 3 with or without one
MsgStores ==
  {<<>>} \cup
  {<<r1, r2>> :
     r1 \in {StoredRecord(1, 3, 1, GeoUnknown, NoGeo, NoProcess),
             StoredRecord(1, 1, 2, NoGeo, GeoA, NoProcess)},
     r2 \in {StoredRecord(2, 1, 3, NoGeo, GeoUnknown, proc) : proc \in {NoProcess, ProcA}}}

InitMsg == \E store \in MsgStores : Running(store)

NextMsg ==
  \/ \E d \in MsgPackets : OnPacket(d)
  \/ \E geo \in ResolvedGeos : OnGeoUpdate(3, geo)
  \/ OnProcessUpdate(1, 3, [process |-> ProcB, pid |-> 9])
  \/ \E m \in MalformedMessages : OnMalformed(m)
  \/ Flush

SpecMsg == InitMsg /\ [][NextMsg]_vars

\* ------------------------------------------------------ pointer gestures
InitPointer == \E store \in SelStores : Running(store)

NextPointer ==
  \/ onMouseDown
  \/ \E dist \in MoveSteps, hit \in Range(ActiveArcGroups) \cup {Null} :
       onMouseMove(dist, hit)
  \/ onMouseLeave
  \/ \E hit \in Range(ActiveArcGroups) \cup {Null} : onMouseUp(hit)
  \/ handleMouseDown
  \/ \E dist \in MoveSteps : handleMouseMove(dist)
  \/ handleMouseLeave
  \/ \E hit \in Range(ActiveArcGroups) \cup {Null} : handleMouseUp(hit)
  \/ \E mode \in {"3d", "2d"} : setViewMode(mode)

SpecPointer == InitPointer /\ [][NextPointer]_vars

\* ------------------------------------------- the flush timer left running
\* a capture that is running, then stopped or closed: events arrive while the
\* socket is open, the interval timer of flushBatchedUpdates keeps firing for
\* the lifetime of the component, and time keeps passing
InitLive == Running(<<>>) /\ groupMode = "location"

\* the time between two callbacks of such a run: half the TTL
LiveSteps == {PACKET_EVENT_TTL_MS \div 2}

\* the packets of one flow
LivePackets == {Packet(1, 2, NoGeo, GeoA, 100, nf) : nf \in BOOLEAN}

NextLive ==
  \/ \E d \in LivePackets : OnPacket(d)
  \/ Flush
  \/ \E d \in LiveSteps : Elapse(d)
  \/ stopCapture
  \/ OnClose
  \/ OnStaleClose

\* ENABLED <<Flush>>_vars as a state predicate: the timer callback changes the
\* state unless it has just run and nothing has happened since
FlushDue == Alive /\ hist # FlushHist

\* WF_vars(Flush): setInterval keeps calling flushBatchedUpdates
FlushFair == []<>(~FlushDue) \/ []<><<Flush>>_vars

SpecLive ==
  /\ InitLive
  /\ [][NextLive]_vars
  /\ FlushFair
  /\ WF_vars(\E d \in LiveSteps : Elapse(d))

\* --------------------------------------------------- viewport navigation
\* deltaY of a wheel event: one notch either way on the WorldMap (the sign
\* decides), a long scroll either way on the Globe
MapWheels == {-100, 100}
GlobeWheels == {-1000, 1000}

InitViewport == Running(<<>>) /\ groupMode = "location"

NextViewport ==
  \/ setHomeLocation(GeoHome)
  \/ \E mode \in {"3d", "2d"} : setViewMode(mode)
  \/ handleMouseDown
  \/ \E dist \in MoveSteps : handleMouseMove(dist)
  \/ handleMouseUp(Null)
  \/ \E deltaY \in MapWheels, off \in WheelPoints : handleWheel(deltaY, off)
  \/ zoomIn
  \/ zoomOut
  \/ MapGoHome
  \/ \E size \in SurfaceSizes : resize(size)
  \/ \E deltaY \in GlobeWheels : onWheel(deltaY)
  \/ GlobeGoHome
  \/ animate(Null)
  \/ \E size \in SurfaceSizes : handleResize(size)

SpecViewport == InitViewport /\ [][NextViewport]_vars

\* ------------------------------------------------------ hover and frames
\* a store of two flows that make two ArcGroups in either group mode
HoverStore ==
  <<StoredRecord(1, 1, 3, GeoA, GeoS, ProcA),
    StoredRecord(2, 1, 2, GeoA, GeoA2, NoProcess)>>

\* Date.now() between two events: within the hover throttle and at its end
HoverSteps == {1, HoverThrottle}

\* deltaY of a wheel event on the Globe: one notch
HoverWheels == {100}

InitHover == Running(HoverStore) /\ groupMode = "location"

NextHover ==
  \/ \E mode \in {"3d", "2d"} : setViewMode(mode)
  \/ \E hit \in Range(ActiveArcGroups) \cup {Null} : onMouseMove(1, hit)
  \/ \E hit \in Range(ActiveArcGroups) \cup {Null} : draw(hit)
  \/ \E under \in Range(ActiveArcGroups) \cup {Null} : animate(under)
  \/ \E deltaY \in HoverWheels : onWheel(deltaY)
  \/ \E size \in SurfaceSizes : resize(size)
  \/ \E size \in SurfaceSizes : handleResize(size)
  \/ \E d \in HoverSteps : Tick(d)
  \/ OnProcessUpdate(1, 2, [process |-> ProcB, pid |-> 9])
  \/ clearConnections

SpecHover == InitHover /\ [][NextHover]_vars

\* ---------------------------------------------------- hit test at a node
\* a canvas of two pixels per degree
HitSurface == [w |-> 720, h |-> 360]

\* zoom factors: none, the go-home zoom, the maximum
HitZooms == {PlanarZoomMin, PlanarHomeZoom, PlanarZoomMax}

\* a place under the curve drawn between GeoHome and GeoS
GeoB == Geo(5252, 1340, FALSE, FALSE)

\* stores of two flows: the groups share a node, lie close together, or lie
\* far apart, or the curve of the first passes over a node of the second
HitStores ==
  {<<r1, r2>> :
     r1 \in {StoredRecord(1, 1, 2, GeoA, GeoA2, ProcA),
             StoredRecord(1, 1, 2, GeoHome, GeoA, ProcA)},
     r2 \in {StoredRecord(2, 1, 3, GeoHome, GeoS, NoProcess),
             StoredRecord(2, 1, 3, GeoA, GeoS, NoProcess)}}
  \cup {<<StoredRecord(1, 1, 2, GeoHome, GeoS, ProcA),
          StoredRecord(2, 1, 3, GeoB, GeoA, NoProcess)>>}

InitHit ==
  /\ \E store \in HitStores : Capturing(store)
  /\ viewMode = "2d"
  /\ surface = HitSurface
  /\ \E z \in HitZooms : planar = [zoom |-> z, pan |-> NoPan]

NextHit ==
  \/ \E at \in 1..Len(ActiveArcGroups), end \in {"src", "dst"} : drawAtNode(at, end)
  \/ handleMouseDown
  \/ \E dist \in MoveSteps : handleMouseMove(dist)
  \/ zoomOut

SpecHit == InitHit /\ [][NextHit]_vars

\* ------------------------------------------------------- packet markers
\* Date.now() between two callbacks: the lifetime of a marker, and a
\* millisecond
MarkerSteps == {1, PACKET_DURATION}

InitMarkers == Running(<<>>) /\ groupMode = "location"

NextMarkers ==
  \/ \E d \in LivePackets : OnPacket(d)
  \/ Flush
  \/ \E d \in MarkerSteps : Tick(d)
  \/ setHomeLocation(GeoHome)
  \/ \E mode \in {"3d", "2d"} : setViewMode(mode)
  \/ draw(Null)
  \/ animate(Null)

SpecMarkers == InitMarkers /\ [][NextMarkers]_vars

\* =================================================================== claims
WithKey(conns, k) == {i \in 1..Len(conns) : ConnKey(conns[i]) = k}

RECURSIVE SumNewFlows(_, _)
SumNewFlows(win, keys) ==
  IF keys = {} THEN 0
  ELSE LET k == CHOOSE x \in keys : TRUE
       IN win[k].newFlows + SumNewFlows(win, keys \ {k})

\* C1: once every non-new-flow packet event that matched a stored record has
\* been flushed (no delta for its pairing key is pending), the record's bytes
\* and packets are what it held when it entered the store plus the lengths /
\* the number of those events, however they were spread over flush cycles.
C1_CoalescedDeltasAddUp ==
  \A i \in 1..Len(connections) :
    LET r == connections[i]
    IN ConnKey(r) \notin DOMAIN pendingConnectionUpdates
       => r.bytes = credit[r.uid].bytes /\ r.packets = credit[r.uid].packets

\* a record that took deltas in two flush cycles, three events or more in all
C1_Witness ==
  \E i \in 1..Len(connections) :
    LET r == connections[i]
    IN /\ ConnKey(r) \notin DOMAIN pendingConnectionUpdates
       /\ credit[r.uid].cycles >= 2
       /\ r.packets >= 4
       /\ r.bytes = credit[r.uid].bytes

\* C2: the Connection Store never holds more than MAX_CONNECTIONS records.
C2_CapacityBound == Len(connections) <= MAX_CONNECTIONS

\* a flush that had more records to keep than the capacity
C2_Witness ==
  /\ hist.op = "flush"
  /\ Len(hist.batch) + Len(hist.prev) > MAX_CONNECTIONS
  /\ Len(hist.prev) > 0
  /\ Len(connections) = MAX_CONNECTIONS

\* the case of C3: the window of the last flush held one new_flow packet
\* for pair k and then one or more other packets for it, and the store held
\* no record of k
C3_Case(k) ==
  /\ hist.op = "flush"
  /\ hist.win[k].newFlows = 1
  /\ hist.win[k].updPackets >= 1
  /\ hist.win[k].early = 0
  /\ WithKey(hist.prev, k) = {}

C3_Sums(k) ==
  \A i \in WithKey(connections, k) :
    /\ connections[i].bytes = hist.win[k].newBytes + hist.win[k].updBytes
    /\ connections[i].packets = 1 + hist.win[k].updPackets

Evicted ==
  {x \in Range(hist.batch \o hist.prev) :
     \A i \in 1..Len(connections) : connections[i].uid # x.uid}

\* C4: after a flush no evicted record has a lastActive greater than that of
\* a retained record.
C4_EvictsLeastRecentlyActive ==
  hist.op = "flush" =>
    \A e \in Evicted : \A i \in 1..Len(connections) :
      e.lastActive <= connections[i].lastActive

\* C5: after a flush the Packet Event Window holds no event whose age (flush
\* time minus timestamp) exceeds the TTL.
C5_NoExpiredEventAfterFlush ==
  hist.op = "flush" =>
    \A i \in 1..Len(packetEvents) :
      now - packetEvents[i].timestamp <= PACKET_EVENT_TTL_MS

\* ------------------------------------------------------------ aggregation
EffectiveSrc(conn) == GeoOr(conn.src_geo, homeLocation)
EffectiveDst(conn) == GeoOr(conn.dst_geo, homeLocation)

\* absent, pending, or without a latitude or a longitude
Unresolved(geo) ==
  \/ geo = NoGeo
  \/ geo.pending
  \/ geo.lat = NoCoord
  \/ geo.lon = NoCoord

Ungroupable(conn) == Unresolved(EffectiveSrc(conn)) \/ Unresolved(EffectiveDst(conn))

\* how often conn is listed in group g
Listed(g, conn) == {m \in 1..Len(g.connections) : g.connections[m].uid = conn.uid}

\* the groups that list conn
GroupsOf(groups, conn) == {j \in 1..Len(groups) : Listed(groups[j], conn) # {}}

RECURSIVE SumField(_, _)
SumField(conns, f) ==
  IF conns = <<>> THEN 0
  ELSE (IF f = "bytes" THEN Head(conns).bytes ELSE Head(conns).packets)
       + SumField(Tail(conns), f)

TotalsAreMembers(groups) ==
  \A j \in 1..Len(groups) :
    /\ groups[j].totalBytes = SumField(groups[j].connections, "bytes")
    /\ groups[j].totalPackets = SumField(groups[j].connections, "packets")

\* C6: in both modes a Connection whose effective source or destination geo
\* is absent, pending or without a latitude or a longitude is in no ArcGroup
\* and in no group's totals, and aggregating it raises no error.
C6_UnresolvedNeverGrouped ==
  \A i \in 1..Len(connections) :
    Ungroupable(connections[i]) =>
      /\ ~arcGroups.threw
      /\ ~appGroups.threw
      /\ GroupsOf(arcGroups.groups, connections[i]) = {}
      /\ GroupsOf(appGroups.groups, connections[i]) = {}
      /\ TotalsAreMembers(arcGroups.groups)
      /\ TotalsAreMembers(appGroups.groups)

\* conn is listed once, in one group, and that group has the given key
InExactlyOne(groups, conn, key) ==
  /\ Cardinality(GroupsOf(groups, conn)) = 1
  /\ \A j \in GroupsOf(groups, conn) :
       Cardinality(Listed(groups[j], conn)) = 1 /\ groups[j].key = key

ProcessNameOf(conn) == IF conn.process # NoProcess THEN conn.process ELSE UnknownName

\* C7: in each mode every Connection whose effective geo is resolved and not
\* pending on both ends is in exactly one ArcGroup, whose key is the
\* connection's grouping key for the mode.
C7_ResolvedInExactlyOneGroup ==
  \A i \in 1..Len(connections) :
    LET c == connections[i]
    IN ~Ungroupable(c) =>
         /\ InExactlyOne(arcGroups.groups, c,
                         LocationKey(CoordKey(EffectiveSrc(c)), CoordKey(EffectiveDst(c))))
         /\ InExactlyOne(appGroups.groups, c,
                         AppKey(ProcessNameOf(c), CoordKey(EffectiveDst(c))))

\* every connection with its two ends exchanged
SwapEnds(conns) ==
  [i \in 1..Len(conns) |->
     [conns[i] EXCEPT !.src_ip = conns[i].dst_ip, !.dst_ip = conns[i].src_ip,
                      !.src_geo = conns[i].dst_geo, !.dst_geo = conns[i].src_geo]]

\* keys, member sets and sums of a group set
Summary(result) ==
  {[key |-> g.key, members |-> {g.connections[m].uid : m \in 1..Len(g.connections)},
    totalBytes |-> g.totalBytes, totalPackets |-> g.totalPackets] :
     g \in Range(result.groups)}

\* C8: location-mode aggregation of the store with src and dst of every
\* connection swapped gives the same keys, each with the same members,
\* totalBytes and totalPackets.
C8_LocationModeSymmetric ==
  LET swapped == ArcGroupsOf(SwapEnds(connections), homeLocation)
  IN swapped.threw = arcGroups.threw /\ Summary(swapped) = Summary(arcGroups)

\* one group holding a connection and one in the opposite direction
C8_Witness ==
  \E g \in Range(arcGroups.groups) :
    /\ Len(g.connections) = 2
    /\ g.connections[1].src_geo = g.connections[2].dst_geo
    /\ g.connections[1].dst_geo = g.connections[2].src_geo
    /\ CoordKey(g.connections[1].src_geo) # CoordKey(g.connections[1].dst_geo)

\* geo of its own on one end only, and that geo resolved
OneEnded(conn) ==
  \/ conn.src_geo = NoGeo /\ ~Unresolved(conn.dst_geo)
  \/ conn.dst_geo = NoGeo /\ ~Unresolved(conn.src_geo)

\* C9: an endpoint without geo takes HomeLocation: a connection with geo on
\* one end only is in no ArcGroup of either mode while HomeLocation is unset,
\* and is grouped in both modes once HomeLocation is set.
C9_HomeLocationFallback ==
  \A i \in 1..Len(connections) :
    LET c == connections[i]
    IN OneEnded(c) =>
         IF homeLocation = NoGeo
         THEN /\ GroupsOf(arcGroups.groups, c) = {}
              /\ GroupsOf(appGroups.groups, c) = {}
         ELSE /\ GroupsOf(arcGroups.groups, c) # {}
              /\ GroupsOf(appGroups.groups, c) # {}

\* -------------------------------------------------------------- selection
\* C10 as stated: at most one of selectedArcGroupKey and selectedConnectionId
\* is non-null.
C10_Original == selectedArcGroupKey = Null \/ selectedConnectionId = Null

\* C10 amended: selecting an ArcGroup clears the selected connection id;
\* selecting a Connection leaves the selected ArcGroup key as it is.
C10_Amended ==
  [][/\ hist'.op = "handleSelectArcGroup" => selectedConnectionId' = Null
     /\ hist'.op = "handleSelectConnection"
          => selectedArcGroupKey' = selectedArcGroupKey]_vars

\* a connection selected inside a selected group
C10_Witness ==
  /\ hist.op = "handleSelectConnection"
  /\ selectedArcGroupKey # Null
  /\ selectedConnectionId # Null
  /\ SelectedArcGroup # Null
  /\ SelectedConnection # Null

\* --------------------------------------------------------------- pipeline
\* C11: the Connection Store changes only at a flush or an explicit clear;
\* between two flushes no arriving event (geo_update and process_update
\* included) changes its contents.
C11_StoreChangesOnlyAtFlush ==
  [][connections' # connections => Flush \/ clearConnections \/ startCapture]_vars

\* C13: events still buffered when stopCapture runs are never applied to the
\* Connection Store, the Packet Event Window or the stats afterwards: while
\* capture is stopped the store and the stats stay or are cleared, and the
\* window gains no event.
C13_StopDropsPending ==
  [][(wsRef = "null" /\ wsRef' = "null") =>
       /\ stats' \in {stats, ZeroStats}
       /\ connections' \in {connections, <<>>}
       /\ Range(packetEvents') \subseteq Range(packetEvents)]_vars

\* C18: a record's bytes and packets never decrease, over flushes and
\* enrichment patches, for as long as the record stays in the store.
C18_CountersNeverDecrease ==
  [][\A i \in 1..Len(connections), j \in 1..Len(connections') :
       connections[i].uid = connections'[j].uid =>
         /\ connections'[j].bytes >= connections[i].bytes
         /\ connections'[j].packets >= connections[i].packets]_vars

\* a stored record that was patched by a process_update and took a delta
C18_Witness ==
  \E i \in 1..Len(connections) :
    /\ connections[i].process = ProcA
    /\ credit[connections[i].uid].cycles >= 1
    /\ connections[i].packets >= 2

\* the delta a stored record takes when the pair is read dst first
ReverseDelta(conn, connectionUpdates) ==
  LET key == PairKey(conn.dst_ip, conn.src_ip)
  IN IF key \in DOMAIN connectionUpdates THEN connectionUpdates[key]
     ELSE [bytes |-> 0, packets |-> 0, lastActive |-> conn.lastActive]

\* C20: the pairing key is direction-independent: a non-new-flow packet from
\* A to B leaves the pending deltas as the same packet from B to A would, and
\* a flush adds the delta of a pair to the records of either orientation.
C20_DirectionIndependent ==
  [][/\ \A d \in PacketInputs :
          OnPacket(d) /\ ~d.new_flow =>
            pendingConnectionUpdates' =
              Coalesce(pendingConnectionUpdates, PairKey(d.dst_ip, d.src_ip), d.length)
     /\ Flush =>
          LET inserted == InsertConnections(connections, pendingNewConnections)
          IN \A i \in 1..Len(inserted) :
               \E j \in 1..Len(connections') :
                 /\ connections'[j].uid = inserted[i].uid
                 /\ connections'[j].bytes = inserted[i].bytes
                      + ReverseDelta(inserted[i], pendingConnectionUpdates).bytes
                 /\ connections'[j].packets = inserted[i].packets
                      + ReverseDelta(inserted[i], pendingConnectionUpdates).packets]_vars

\* one pending delta fed by packets of both directions
C20_Witness ==
  \E i, j \in 1..Len(pendingPacketEvents) :
    LET e == pendingPacketEvents[i]
        f == pendingPacketEvents[j]
    IN /\ e.src_ip = f.dst_ip /\ e.dst_ip = f.src_ip /\ e.src_ip # e.dst_ip
       /\ window[e.connKey].newFlows = 0
       /\ e.connKey \in DOMAIN pendingConnectionUpdates
       /\ pendingConnectionUpdates[e.connKey].packets >= 2

\* ------------------------------------------------------------ enrichment
IsUnknown(geo) == geo # NoGeo /\ geo.unknown

\* the store after a geo patch for ip with value geo, as C16 describes it
GeoPatched(conns, ip, geo) ==
  [i \in 1..Len(conns) |->
     [conns[i] EXCEPT
        !.src_geo = IF conns[i].src_ip = ip /\ IsUnknown(conns[i].src_geo) THEN geo ELSE @,
        !.dst_geo = IF conns[i].dst_ip = ip /\ IsUnknown(conns[i].dst_geo) THEN geo ELSE @]]

\* C16: a geo patch for ip X with value G, from a geo_update or from a lookup
\* result, sets src_geo on every record with src_ip = X and unknown src_geo
\* and dst_geo on every record with dst_ip = X and unknown dst_geo (both ends
\* of a record where X is both endpoints) and changes nothing else.
C16_GeoPatchBothEnds ==
  [][/\ \A ip \in IPs, geo \in ResolvedGeos :
          OnGeoUpdate(ip, geo) => connections' = GeoPatched(connections, ip, geo)
     /\ \A ip \in IPs, data \in ResolvedGeos :
          lookupResolved(ip, data) => connections' = GeoPatched(connections, ip, data)]_vars

\* ---------------------------------------------------------- message events
\* C12: for every inbound message, an unparseable payload and a typed message
\* with required fields missing included, the handler raises no error and
\* leaves the pending buffers, the store, the window and the stats as they were.
C12_MalformedDroppedSilently ==
  [][\A m \in MalformedMessages :
       OnMalformed(m) => ~MessageThrows(m) /\ UNCHANGED <<pendingVars, storeVars>>]_vars

\* the store after a process_update, as C17 describes it
ProcessPatched(conns, a, b, process, pid) ==
  [i \in 1..Len(conns) |->
     IF /\ {conns[i].src_ip, conns[i].dst_ip} = {a, b}
        /\ <<conns[i].src_ip, conns[i].dst_ip>> \in {<<a, b>>, <<b, a>>}
        /\ conns[i].process = NoProcess
     THEN [conns[i] EXCEPT !.process = process, !.pid = pid]
     ELSE conns[i]]

\* C17: a process_update(src_ip, dst_ip, process, pid) sets process and pid on
\* exactly the records of that pair, in either orientation, that have no
\* process yet; every other record is unchanged.
C17_ProcessPatchOnlyUnset ==
  [][OnProcessUpdate(1, 3, [process |-> ProcB, pid |-> 9]) =>
       connections' = ProcessPatched(connections, 1, 3, ProcB, 9)]_vars

\* a record 3 -> 1 took the process of an update for (1, 3) while a record of
\* the same pair kept the process it had
C17_Witness ==
  \E i, j \in 1..Len(connections) :
    /\ connections[i].src_ip = 3 /\ connections[i].dst_ip = 1
    /\ connections[i].process = ProcB /\ connections[i].pid = 9
    /\ ConnKey(connections[j]) = ConnKey(connections[i])
    /\ connections[j].process = ProcA /\ connections[j].pid = 7

UidsOf(conns) == {conns[i].uid : i \in 1..Len(conns)}

\* C19: a Connection record is created only by a packet with new_flow set and
\* geo on at least one endpoint; a packet with geo on neither endpoint creates
\* no Connection, no PacketEvent and no pending delta, whatever its new_flow.
C19_RecordsOnlyFromNewFlowWithGeo ==
  [][/\ \A d \in MsgPackets :
          OnPacket(d) =>
            /\ pendingNewConnections' # pendingNewConnections =>
                 d.new_flow /\ (d.src_geo # NoGeo \/ d.dst_geo # NoGeo)
            /\ d.src_geo = NoGeo /\ d.dst_geo = NoGeo =>
                 UNCHANGED <<pendingPacketEvents, pendingNewConnections,
                             pendingConnectionUpdates>>
     /\ UidsOf(pendingNewConnections') \subseteq
          UidsOf(pendingNewConnections) \cup
            (IF \E d \in MsgPackets : OnPacket(d) THEN {nFlows'} ELSE {})
     /\ UidsOf(connections') \subseteq
          UidsOf(connections) \cup (IF Flush THEN UidsOf(pendingNewConnections) ELSE {})]_vars

\* a new_flow packet without geo was received: counted, nothing else buffered
C19_Witness ==
  /\ pendingStats.flows >= 1
  /\ pendingStats.packets = pendingStats.flows
  /\ pendingPacketEvents = <<>>
  /\ pendingNewConnections = <<>>
  /\ pendingConnectionUpdates = NoUpdates

\* ---------------------------------------------------------------- pointer
\* C14: in both projections a press-move-release whose cumulative movement
\* reaches or exceeds the click threshold never calls the select-ArcGroup
\* handler, and the selection changes only on a release below the threshold.
C14_DragNeverSelects ==
  hist.op = "release" /\ hist.moved >= ClickThreshold =>
    /\ ~hist.called
    /\ selectedArcGroupKey = hist.prevKey

\* C15: in both projections a click that hits no node and no arc of any
\* ArcGroup sets the selected ArcGroup key to null.
C15_EmptyClickDeselects ==
  hist.op = "release" /\ hist.clicked /\ hist.hit = Null =>
    selectedArcGroupKey = Null

\* a group was selected and a click on empty space of the 2D map cleared it
C15_Witness ==
  /\ hist.op = "release"
  /\ hist.view = "2d"
  /\ hist.clicked
  /\ hist.hit = Null
  /\ hist.prevKey # Null
  /\ selectedArcGroupKey = Null

\* s is what is left of t when some of its first elements are removed
IsSuffix(s, t) == \E k \in 0..Len(t) : s = SubSeq(t, k + 1, Len(t))

\* C21: after every flush the Packet Event Window holds at most
\* MAX_PACKET_EVENTS events, and it is an end piece of the events in arrival
\* order (the window before the flush, then the pending events): whatever the
\* flush drops is older than everything it keeps.
C21_WindowCappedOldestFirst ==
  [][Flush => /\ Len(packetEvents') <= MAX_PACKET_EVENTS
              /\ IsSuffix(packetEvents', packetEvents \o pendingPacketEvents)]_vars

\* a flush whose pending events alone exceed the cap: the window is full
C21_Witness ==
  /\ hist.op = "flush"
  /\ Len(hist.events) > MAX_PACKET_EVENTS
  /\ Len(packetEvents) = MAX_PACKET_EVENTS

\* the events of evs whose age has reached the TTL at this cutoff
Expired(evs, cutoff) == Len(evs) - Len(FilterFresh(evs, cutoff))

\* no packet event can arrive any more: the socket is not open, or the run has
\* delivered all its events
EventsStopped == wsRef # "open" \/ nInputs = MaxInputs

\* C22: every flush tick prunes the window, with or without new events: no
\* event that was in the window and has reached the TTL is left after the tick
\* (the only expired events a tick can leave are pending ones it has just
\* appended), and once events have stopped arriving, with the socket closed or
\* not, the window becomes empty.
C22_WindowPrunedEveryTick ==
  /\ [][Flush => Expired(packetEvents', now - PACKET_EVENT_TTL_MS)
                 <= Expired(pendingPacketEvents, now - PACKET_EVENT_TTL_MS)]_vars
  /\ (EventsStopped /\ now + PACKET_EVENT_TTL_MS <= MaxNow) ~> (packetEvents = <<>>)

\* after the capture was stopped, a tick with no new event has removed the
\* expired events and left the window empty
C22_Witness ==
  /\ hist.op = "flush"
  /\ hist.events = <<>>
  /\ hist.pruned > 0
  /\ wsRef = "null"
  /\ packetEvents = <<>>

\* C26: in app mode, once a home location is set, the source endpoint of every
\* ArcGroup is the home location, whatever the src_geo of its connections.
C26_AppGroupSourceIsHome ==
  (groupMode = "app" /\ homeLocation # NoGeo /\ ~appGroups.threw)
    => \A i \in 1..Len(ActiveArcGroups) : ActiveArcGroups[i].srcGeo = homeLocation

\* C30 as stated: every entry of the pending accumulator belongs to one
\* pairing key, and its bytes and packets are the sum of the lengths and the
\* count of all the non-new-flow packet events of that key since the last flush.
C30_Original ==
  /\ DOMAIN pendingConnectionUpdates \subseteq PairKeys
  /\ \A k \in DOMAIN pendingConnectionUpdates :
       LET w == window[k]
       IN /\ pendingConnectionUpdates[k].bytes = w.updBytes + w.bareBytes
          /\ pendingConnectionUpdates[k].packets = w.updPackets + w.barePackets

\* C30 amended: the entry of a key sums the non-new-flow packet events since
\* the last flush that carry a geo on at least one end; an event without any
\* geo is counted in the stats and in no entry.
C30_Amended ==
  /\ DOMAIN pendingConnectionUpdates \subseteq PairKeys
  /\ \A k \in PairKeys :
       LET w == window[k]
       IN IF w.updPackets = 0
          THEN k \notin DOMAIN pendingConnectionUpdates
          ELSE /\ k \in DOMAIN pendingConnectionUpdates
               /\ pendingConnectionUpdates[k].bytes = w.updBytes
               /\ pendingConnectionUpdates[k].packets = w.updPackets

\* one entry that sums two events of a flow, in both directions, while an
\* event of the same flow without geo was left out
C30_Witness ==
  \E k \in DOMAIN pendingConnectionUpdates :
    /\ pendingConnectionUpdates[k].packets = 2
    /\ pendingConnectionUpdates[k].bytes = 350
    /\ window[k].barePackets > 0

\* C23: on the WorldMap, whatever the drags, wheel zooms, zoom buttons, go-home
\* and resizes before, the pan is within (w * zoom - w) / 2 horizontally and
\* (h * zoom - h) / 2 vertically for the current surface size w x h (a surface
\* that has a size), so that the map covers the viewport.
C23_PanWithinBounds ==
  (viewMode = "2d" /\ Sized)
    => /\ Abs(planar.pan.x) <= surface.w * (planar.zoom - ZoomUnit)
       /\ Abs(planar.pan.y) <= surface.h * (planar.zoom - ZoomUnit)

\* C24: the zoom of the WorldMap is within [1, 8], and on the Globe both the
\* target zoom and the eased zoom are within [1.5, 6], after any wheel, zoom
\* button, go-home and number of frames.
C24_ZoomWithinRange ==
  /\ PlanarZoomMin <= planar.zoom /\ planar.zoom <= PlanarZoomMax
  /\ GlobeZoomMin <= camera.targetZoom /\ camera.targetZoom <= GlobeZoomMax
  /\ GlobeZoomMin <= camera.zoom /\ camera.zoom <= GlobeZoomMax

\* the Globe after a wheel that ran into the lower end of the range, the
\* frames having eased the zoom all the way to it
C24_Witness ==
  /\ viewMode = "3d"
  /\ camera.targetZoom = GlobeZoomMin
  /\ camera.zoom = GlobeZoomMin
  /\ hist.op = "frame"


\* the group of the current set that has the key of g has g's connections and
\* totals
CurrentOfKey(g) ==
  LET at == GroupIndex(ActiveArcGroups, g.key)
  IN /\ at # 0
     /\ g.connections = ActiveArcGroups[at].connections
     /\ g.totalBytes = ActiveArcGroups[at].totalBytes
     /\ g.totalPackets = ActiveArcGroups[at].totalPackets

\* C27: the selected and the hovered ArcGroup handed to rendering are, after
\* any change of the store, the group of the current set with the same key
\* (same connections, totalBytes and totalPackets), and null when the current
\* set has no group with that key.
C27_GroupsLookedUpByKey ==
  /\ SelectedArcGroup # Null => CurrentOfKey(SelectedArcGroup)
  /\ hover.group # Null => CurrentOfKey(hover.group)

\* C28: in both projections a frame that runs when the throttle interval has
\* passed leaves as hovered group the group that lies under the pointer now,
\* without a pointer-move event, and two hover recomputations of a view are
\* at least 50 ms apart.
C28_FramesRecomputeHover ==
  [][/\ (hist'.op = "frame" /\ hist'.sized /\ hist'.due)
          => KeyOf(hover'.group) = hist'.under
     /\ (viewMode' = viewMode /\ hover'.last # hover.last)
          => hover'.last - hover.last >= HoverThrottle]_vars

\* C29: in both projections a frame on a surface of zero width or height draws
\* nothing, changes no hover and no viewport state, and schedules the next
\* frame.
C29_ZeroSizeFrameSkipped ==
  [][(hist'.op = "frame" /\ ~hist'.sized)
       => /\ ~hist'.drew
          /\ hist'.scheduled
          /\ hover' = hover
          /\ planar' = planar
          /\ camera' = camera]_vars


NodeHit(group, pos) ==
  LET src == toXY(group.srcGeo.lat, group.srcGeo.lon, surface.w, surface.h,
                  planar.zoom, planar.pan)
      dst == toXY(group.dstGeo.lat, group.dstGeo.lon, surface.w, surface.h,
                  planar.zoom, planar.pan)
  IN \/ Near(pos.x - src.x, pos.y - src.y, HitRadius(24, planar.zoom))
     \/ Near(pos.x - dst.x, pos.y - dst.y, HitRadius(24, planar.zoom))

\* C31: in the hit test of the WorldMap nodes take priority over arcs across
\* the whole set: when the pointer is within the node hit radius of an endpoint
\* of some group, the group returned has an endpoint within that radius.
C31_NodesBeforeArcs ==
  (/\ hist.op = "hit"
   /\ \E i \in 1..Len(ActiveArcGroups) : NodeHit(ActiveArcGroups[i], hist.mousePos))
    => /\ hist.found # 0
       /\ NodeHit(ActiveArcGroups[hist.found], hist.mousePos)


\* the records of the store, in order, by identity
UidSeq(conns) == [i \in 1..Len(conns) |-> conns[i].uid]

\* the store is ordered by lastActive, non-increasing from first to last
SortedByLastActive(conns) ==
  \A i \in 1..(Len(conns) - 1) : conns[i].lastActive >= conns[i + 1].lastActive

\* the records of before that are still in after stand in the same order
OrderKept(before, after) ==
  LET InAfter(u) == \E i \in 1..Len(after) : after[i].uid = u
      InBefore(u) == \E i \in 1..Len(before) : before[i].uid = u
  IN SelectSeq(UidSeq(before), InAfter) = SelectSeq(UidSeq(after), InBefore)

\* the flush has a delta for a record of the store (after the insertion)
DeltaApplies ==
  \E c \in Range(InsertConnections(connections, pendingNewConnections)) :
    ConnKey(c) \in DOMAIN pendingConnectionUpdates

\* C32 as stated: a flush that applies a delta to at least one record leaves
\* the store ordered by lastActive, non-increasing; a flush that applies no
\* delta, and every enrichment patch, leaves the records already in the store
\* in the order they had.
C32_Original ==
  [][/\ Flush => /\ DeltaApplies => SortedByLastActive(connections')
                 /\ ~DeltaApplies => OrderKept(connections, connections')
     /\ (\/ \E geo \in ResolvedGeos : OnGeoUpdate(3, geo)
         \/ OnProcessUpdate(3, 1, [process |-> ProcA, pid |-> 7]))
          => UidSeq(connections') = UidSeq(connections)]_vars

\* C32 amended: a flush whose update accumulator holds at least one entry,
\* whether or not a record of the store has that key, leaves the store ordered
\* by lastActive, non-increasing; a flush whose accumulator is empty, and
\* every enrichment patch, leaves the records already in the store in the
\* order they had.
C32_Amended ==
  [][/\ Flush => /\ pendingConnectionUpdates # NoUpdates
                      => SortedByLastActive(connections')
                 /\ pendingConnectionUpdates = NoUpdates
                      => OrderKept(connections, connections')
     /\ (\/ \E geo \in ResolvedGeos : OnGeoUpdate(3, geo)
         \/ OnProcessUpdate(3, 1, [process |-> ProcA, pid |-> 7]))
          => UidSeq(connections') = UidSeq(connections)]_vars

\* a flush without new records has turned a store of two records around
C32_Witness ==
  /\ hist.op = "flush"
  /\ hist.batch = <<>>
  /\ Len(hist.prev) = 2
  /\ UidSeq(connections) = <<hist.prev[2].uid, hist.prev[1].uid>>


\* both effective endpoints of the event can be placed
Resolvable(e) ==
  /\ EventGeo(e.src_geo, homeLocation) # NoGeo
  /\ EventGeo(e.dst_geo, homeLocation) # NoGeo

\* C33: in live mode, in both projections, a frame draws a marker for every
\* event of the Packet Event Window whose age is within PACKET_EVENT_TTL_MS
\* and whose two effective endpoints are resolvable, with progress age / TTL.
C33_MarkersForWholeLifetime ==
  (hist.op = "frame" /\ hist.drew)
    => \A i \in 1..Len(packetEvents) :
         (/\ now - packetEvents[i].timestamp <= PACKET_EVENT_TTL_MS
          /\ Resolvable(packetEvents[i]))
           => /\ i \in DOMAIN hist.markers
              /\ hist.markers[i]
                   = ((now - packetEvents[i].timestamp) * 1000) \div PACKET_EVENT_TTL_MS


\* C34: the first flush after an explicit clear, or after the reset at the
\* start of a fresh capture, with no event arriving in between, leaves the
\* Connection Store empty and the stats counters at zero: what was buffered
\* at that moment is discarded.
C34_NothingReappearsAfterClear ==
  [][(hist.op \in {"clearConnections", "startCapture"} /\ Flush)
       => (connections' = <<>> /\ stats' = ZeroStats)]_vars


\* C35: after every flush the bytes of the records of the Connection Store
\* add up to at most the stats byte counter, and their packets to at most the
\* stats packet counter, also when several records share a pairing key.
C35_NoPacketCreditedTwice ==
  hist.op = "flush"
    => /\ SumField(connections, "bytes") <= stats.bytes
       /\ SumField(connections, "packets") <= stats.packets


\* the Connection Store as the next flush would leave it
FlushedStore ==
  ApplyUpdates(InsertConnections(connections, pendingNewConnections),
               pendingConnectionUpdates)

\* C36: a geo_update or process_update that arrives while a record it matches
\* is still waiting for its flush is not lost: the flush that follows leaves
\* the store as it would be had the flush come first and the enrichment
\* after it.
C36_EnrichmentNotLost ==
  [][/\ \A geo \in ResolvedGeos :
          OnGeoUpdate(3, geo) => FlushedStore' = PatchGeo(FlushedStore, 3, geo)
     /\ OnProcessUpdate(3, 1, [process |-> ProcA, pid |-> 7])
          => FlushedStore' = PatchProcess(FlushedStore, 3, 1, ProcA, 7)]_vars


\* C37: the capturing flag follows the current socket: a packet is ingested
\* only while capturing is TRUE, and the close event of a socket that
\* startCapture or stopCapture replaced leaves the flag of a current
\* connecting or open socket as it was.
C37_CapturingTracksSocket ==
  [][/\ (\E d \in PacketInputs : OnPacket(d)) => capturing
     /\ (OnStaleClose /\ wsRef \in {"connecting", "open"}) => capturing' = capturing]_vars


\* C38: no two records of the store have the same id.
C38_ConnectionIdsUnique ==
  \A i, j \in DOMAIN connections :
    i # j => connections[i].id # connections[j].id


\* ------------------------------------------ frames with the pointer away
\* the canvas of a wide window
AwaySurface == [w |-> 1200, h |-> 600]

\* zoom factors the + button reaches from the initial zoom
AwayZooms == {PlanarZoomMin, ZoomIn(ZoomIn(ZoomIn(PlanarZoomMin)))}

\* Date.now() between two frames that both check the hover
AwaySteps == {HoverThrottle + 1}

\* stores of one flow: across the North Atlantic, across the Pacific, and
\* within one city
AwayStores ==
  {<<StoredRecord(1, 1, 2, GeoA, GeoB, ProcA)>>,
   <<StoredRecord(1, 1, 2, GeoHome, GeoS, ProcA)>>,
   <<StoredRecord(1, 1, 2, GeoA, GeoA2, ProcA)>>}

\* the pointer has not been over the canvas since the map was mounted, or
\* has left it: mousePosRef is AwayPos and nothing is hovered
InitAway ==
  /\ \E store \in AwayStores : Capturing(store)
  /\ groupMode = "location"
  /\ viewMode = "2d"
  /\ surface = AwaySurface
  /\ \E z \in AwayZooms : planar = [zoom |-> z, pan |-> NoPan]

\* what happens while the pointer stays off the canvas: frames, the zoom
\* buttons, and a repeated mouseleave
NextAway ==
  \/ drawAway
  \/ handleMouseLeave
  \/ zoomIn
  \/ zoomOut
  \/ \E d \in AwaySteps : Tick(d)

SpecAway == InitAway /\ [][NextAway]_vars

\* C39: while the pointer is off the canvas, every frame of the planar map
\* leaves the hovered ArcGroup null.
C39_HoverStaysNullAfterLeave == [][drawAway => hover'.group = Null]_vars

====
